---- MODULE Spec2Model ----
(***************************************************************************)
(* Model of the remote resolution pipeline of affinidi-did-resolver:       *)
(*   - RequestList   (cache-sdk/src/networking/request_queue.rs)           *)
(*   - NetworkTask   (cache-sdk/src/networking/network.rs)                 *)
(*   - DIDCacheClient resolve / remove / new / stop (cache-sdk/src/lib.rs) *)
(*   - the server's per-connection loop (cache-server/.../websocket.rs)    *)
(* The caller side of a network resolution (network_resolve, in            *)
(* networking/mod.rs) is not among the sources; it is modelled from        *)
(* section 4.5 of the specification ("Network miss path").                 *)
(***************************************************************************)
EXTENDS Integers, Sequences, FiniteSets, TLC

---------------------------------------------------------------------------
(* Bounds of the model.                                                    *)

\* total number of resolve() calls made by all callers together
MaxCalls == 3
\* network_cache_limit_count is drawn from 0..MaxLimit
MaxLimit == 1
\* consecutive failed connection attempts explored in one connect loop
MaxConnFails == 1
\* times the server side closes or resets the connection
MaxOutages == 1
\* resolve() calls in the specification with fairness
MaxFairCalls == 2
\* resolve() calls in the specification with shutdown
MaxStopCalls == 2
\* the number of resolve calls when DIDs of unknown methods are resolved
MaxMethodCalls == 2
\* resolve() calls in the specification of the self-healing connection
MaxHealCalls == 2
\* resolve() calls in the specification of the connect loop
MaxBackoffCalls == 1
\* resolve() calls in the specification of the wire
MaxWireCalls == 1
\* frames in flight on the wire that a peer adds to
MaxWire == 2
\* max_did_size_in_kb is drawn from 1..MaxDidSizeKb
MaxDidSizeKb == 1
\* max_did_parts is drawn from 1..MaxDidParts
MaxDidParts == 2
\* resolve() calls in the specification of the guards
MaxGuardCalls == 2
\* resolve() calls in the specification of the guards with a seeded cache
MaxSeededCalls == 1
\* in the specification of the RequestList alone: network_cache_limit_count
\* is drawn from 0..MaxListLimit
MaxListLimit == 1
\* waiters registered under one key
MaxListWaiters == 2
\* uids, and channels, that the calls name
MaxListUids == 2

(* Program constants.                                                      *)

\* mpsc::channel(32): SDK -> network task, and network task -> SDK
ChannelCap == 32
\* const BYTES_PER_KILO_BYTE: f64 = 1000.0
BYTES_PER_KILO_BYTE == 1000
\* ClientConfigBuilder::default(): max_did_size_in_kb: 1.0
DefaultMaxDidSizeInKb == 1
\* ClientConfigBuilder::default(): max_did_parts: 5
DefaultMaxDidParts == 5
\* let mut backoff = Duration::from_secs(1)
BackoffStart == 1
\* backoff.saturating_add(Duration::from_secs(5))
BackoffStep == 5
\* if backoff.as_secs() < 60
BackoffCeiling == 60

---------------------------------------------------------------------------
(* Values.                                                                 *)

\* Option values: None is the empty sequence, Some(x) the sequence of x
None == << >>

Some(x) == <<x>>

NoDid == "NoDid"

NoDoc == "NoDoc"

\* what resolve returns: Ok(ResolveResponse) or an error kind
NoResult == [kind |-> "none", doc |-> NoDoc, cache_hit |-> FALSE]

Ok(doc, hit) == [kind |-> "Ok", doc |-> doc, cache_hit |-> hit]

Err(kind) == [kind |-> kind, doc |-> NoDoc, cache_hit |-> FALSE]

\* Three DIDs of methods the SDK knows and one of a method it does not know
Dids == {"did:web:a", "did:web:b", "did:key:c", "did:xyz:d"}
Docs == {"doc1", "doc2"}

\* Blake2s256 digest of the DID bytes, rendered as lowercase hex.  The
\* digest is deterministic and (for the DIDs of the model) collision free.
DidHash(did) ==
    CASE did = "did:web:a" -> "b2s_a"
      [] did = "did:web:b" -> "b2s_b"
      [] did = "did:key:c" -> "b2s_c"
      [] did = "did:xyz:d" -> "b2s_d"
      [] OTHER -> "b2s_other"

Hashes == {DidHash(d) : d \in Dids}

\* parts[1] of did.split(':'): the method token of the DID
MethodToken(did) ==
    CASE did = "did:web:a" -> "web"
      [] did = "did:web:b" -> "web"
      [] did = "did:key:c" -> "key"
      [] did = "did:xyz:d" -> "xyz"
      [] OTHER -> ""

\* str::to_lowercase, on the method tokens of the model
to_lowercase(value) ==
    CASE value = "KEY" -> "key"
      [] value = "WEB" -> "web"
      [] OTHER -> value

\* DIDMethod::try_from(&str): the method, or UnsupportedMethod
DIDMethod_try_from(value) ==
    IF to_lowercase(value) \in {"ethr", "jwk", "key", "peer", "pkh", "web"}
    THEN [ok |-> TRUE, value |-> to_lowercase(value)]
    ELSE [ok |-> FALSE, value |-> "UnsupportedMethod"]

\* The resolve calls, numbered in the order they start.  Any number of them
\* run concurrently (one caller each).  A call that goes to the network
\* creates one fresh uid and one oneshot channel, both named by its number.
CallIds == 1..MaxCalls

---------------------------------------------------------------------------
(* The configuration of the client and the DIDs that meet the guards of    *)
(* resolve.  Such a DID is the sequence of the tokens of its text: each    *)
(* token is a separator (':' or '.') or a run of other bytes.              *)

\* ClientConfig: the fields that resolve reads.  max_did_size_in_kb is a
\* whole number of kilobytes, for which the f64 comparison of resolve is
\* exact.
ClientConfig(parts, size_in_kb, address) ==
    [max_did_parts |-> parts, max_did_size_in_kb |-> size_in_kb,
     service_address |-> address]

\* ClientConfigBuilder::default() with a service address (network mode)
DefaultConfig == ClientConfig(DefaultMaxDidParts, DefaultMaxDidSizeInKb, Some("ws"))

\* the configurations of the guards' specification, local and network mode
ClientConfigs ==
    {ClientConfig(p, k, a) : p \in 1..MaxDidParts, k \in 1..MaxDidSizeKb,
                             a \in {None, Some("ws")}}

Token(text, bytes) == [text |-> text, bytes |-> bytes]
Colon == Token(":", 1)
Dot == Token(".", 1)
\* a run of n bytes 'A'
Pad(n) == Token("A", n)

\* did.len(): the length of the text in bytes
RECURSIVE DidLen(_)
DidLen(did) == IF did = << >> THEN 0 ELSE Head(did).bytes + DidLen(Tail(did))

\* str::split(sep): the pieces between the separators, empty pieces included
RECURSIVE Split(_, _)
Split(text, sep) ==
    IF text = << >> THEN << << >> >>
    ELSE LET rest == Split(Tail(text), sep)
         IN  IF Head(text) = sep
             THEN << << >> >> \o rest
             ELSE << <<Head(text)>> \o Head(rest) >> \o Tail(rest)

\* a piece as a &str, for the pieces that are compared with literals
PieceText(piece) == IF Len(piece) = 1 THEN piece[1].text ELSE "(other)"

\* Blake2s256 of the text, in hex: a digest without collisions
Blake2sHex(did) == [b2s |-> did]

\* k pieces joined by '.', the first of them given
LastSegment(first, k) == <<first>> \o [i \in 1..(2 * (k - 1)) |-> IF i % 2 = 1 THEN Dot ELSE Token("s", 1)]

\* the bytes of "did:" + a method token of 3 bytes + ":"
PrefixBytes == 8

\* the first pieces of a last segment: short, or such that a DID of three
\* segments is exactly at a size limit or one byte above it
FirstPieces ==
    {Token("abc", 3)} \cup
    {Pad(k * BYTES_PER_KILO_BYTE - PrefixBytes + d) : k \in 1..MaxDidSizeKb, d \in {0, 1}}

MethodTokens == {Token("key", 3), Token("KEY", 3), Token("xyz", 3)}

\* the DIDs that resolve is called with: of one, two, three and four
\* segments, with every number of '.' pieces up to one above the limit
GuardDids ==
    {<<Token("did", 3)>>}
    \cup {<<Token("did", 3), Colon, m>> : m \in MethodTokens}
    \cup {<<Token("did", 3), Colon, m, Colon>> \o LastSegment(f, k) :
             m \in MethodTokens, f \in FirstPieces, k \in 1..(MaxDidParts + 1)}
    \cup {<<Token("did", 3), Colon, m, Colon, Token("abc", 3), Colon>> \o LastSegment(Token("abc", 3), k) :
             m \in MethodTokens, k \in 1..(MaxDidParts + 1)}

GuardHashes == {Blake2sHex(d) : d \in GuardDids}

---------------------------------------------------------------------------
(* Sequence and map helpers.                                               *)

EmptyMap == [k \in {} |-> << >>]

MapPut(m, k, v) == [x \in (DOMAIN m) \cup {k} |-> IF x = k THEN v ELSE m[x]]

MapDel(m, k) == [x \in (DOMAIN m) \ {k} |-> m[x]]

RemoveAt(s, i) == [j \in 1..(Len(s) - 1) |-> IF j < i THEN s[j] ELSE s[j + 1]]

\* channels.iter().position(|(id, _)| *id == uid): first index, 0 when absent
Position(s, uid) ==
    IF \E i \in 1..Len(s) : s[i][1] = uid
    THEN CHOOSE i \in 1..Len(s) :
            /\ s[i][1] = uid
            /\ \A j \in 1..(i - 1) : s[j][1] # uid
    ELSE 0

\* channels.into_iter().map(|(_, channel)| channel).collect()
Channels(s) == [i \in 1..Len(s) |-> s[i][2]]

SeqToSet(s) == {s[i] : i \in 1..Len(s)}

---------------------------------------------------------------------------
(* RequestList (request_queue.rs).  A list value is a record               *)
(*   [list, list_full, limit_count, total_count];                          *)
(* list maps a did hash to the sequence of <<uid, channel>> pairs.         *)
(* Operations return [rl |-> the list afterwards, ret |-> the result].     *)

RequestList_new(limit) ==
    [list |-> EmptyMap, list_full |-> FALSE, limit_count |-> limit, total_count |-> 0]

\* a variant that counts every waiter, not every key
RequestList_insert_counts_waiters(rl, key, uid, channel) ==
    IF key \in DOMAIN rl.list
    THEN [rl  |-> [rl EXCEPT !.list = [rl.list EXCEPT ![key] = Append(@, <<uid, channel>>)],
                             !.total_count = @ + 1],
          ret |-> FALSE]
    ELSE LET n == rl.total_count + 1
         IN  [rl  |-> [rl EXCEPT !.list = MapPut(rl.list, key, << <<uid, channel>> >>),
                                 !.total_count = n,
                                 !.list_full = IF n > rl.limit_count THEN TRUE ELSE @],
              ret |-> TRUE]

\* a variant that puts a coalesced waiter at the front of the list
RequestList_insert_prepends(rl, key, uid, channel) ==
    IF key \in DOMAIN rl.list
    THEN [rl  |-> [rl EXCEPT !.list = [rl.list EXCEPT ![key] = << <<uid, channel>> >> \o @]],
          ret |-> FALSE]
    ELSE LET n == rl.total_count + 1
         IN  [rl  |-> [rl EXCEPT !.list = MapPut(rl.list, key, << <<uid, channel>> >>),
                                 !.total_count = n,
                                 !.list_full = IF n > rl.limit_count THEN TRUE ELSE @],
              ret |-> TRUE]

\* a variant that reports a coalesced request as new
RequestList_insert_resend(rl, key, uid, channel) ==
    IF key \in DOMAIN rl.list
    THEN [rl  |-> [rl EXCEPT !.list = [rl.list EXCEPT ![key] = Append(@, <<uid, channel>>)]],
          ret |-> TRUE]
    ELSE LET n == rl.total_count + 1
         IN  [rl  |-> [rl EXCEPT !.list = MapPut(rl.list, key, << <<uid, channel>> >>),
                                 !.total_count = n,
                                 !.list_full = IF n > rl.limit_count THEN TRUE ELSE @],
              ret |-> TRUE]

\* a variant that never marks the list full
RequestList_insert_never_full(rl, key, uid, channel) ==
    IF key \in DOMAIN rl.list
    THEN [rl  |-> [rl EXCEPT !.list = [rl.list EXCEPT ![key] = Append(@, <<uid, channel>>)]],
          ret |-> FALSE]
    ELSE [rl  |-> [rl EXCEPT !.list = MapPut(rl.list, key, << <<uid, channel>> >>),
                             !.total_count = @ + 1],
          ret |-> TRUE]

\* a variant whose fullness test is off by one
RequestList_insert_late_full(rl, key, uid, channel) ==
    IF key \in DOMAIN rl.list
    THEN [rl  |-> [rl EXCEPT !.list = [rl.list EXCEPT ![key] = Append(@, <<uid, channel>>)]],
          ret |-> FALSE]
    ELSE LET n == rl.total_count + 1
         IN  [rl  |-> [rl EXCEPT !.list = MapPut(rl.list, key, << <<uid, channel>> >>),
                                 !.total_count = n,
                                 !.list_full = IF n > rl.limit_count + 1 THEN TRUE ELSE @],
              ret |-> TRUE]

RequestList_insert(rl, key, uid, channel) ==
    IF key \in DOMAIN rl.list
    THEN [rl  |-> [rl EXCEPT !.list = [rl.list EXCEPT ![key] = Append(@, <<uid, channel>>)]],
          ret |-> FALSE]
    ELSE LET n == rl.total_count + 1
         IN  [rl  |-> [rl EXCEPT !.list = MapPut(rl.list, key, << <<uid, channel>> >>),
                                 !.total_count = n,
                                 !.list_full = IF n > rl.limit_count THEN TRUE ELSE @],
              ret |-> TRUE]

\* a variant that, given a uid no waiter of the key has, removes the key
RequestList_remove_unknown_uid_drops_key(rl, key, uid) ==
    IF uid # None /\ key \in DOMAIN rl.list /\ Position(rl.list[key], uid[1]) > 0
    THEN LET index == Position(rl.list[key], uid[1])
             l1    == [rl.list EXCEPT ![key] = RemoveAt(@, index)]
             empty == l1[key] = << >>
         IN  [rl  |-> [rl EXCEPT !.list = IF empty THEN MapDel(l1, key) ELSE l1,
                                 !.total_count = IF empty THEN @ - 1 ELSE @,
                                 !.list_full = IF empty THEN FALSE ELSE @],
              ret |-> Some(<< rl.list[key][index][2] >>)]
    ELSE IF key \in DOMAIN rl.list
         THEN [rl  |-> [rl EXCEPT !.list = MapDel(rl.list, key),
                                  !.total_count = @ - 1,
                                  !.list_full = FALSE],
               ret |-> IF uid = None THEN Some(Channels(rl.list[key])) ELSE None]
         ELSE [rl |-> rl, ret |-> None]

\* a variant that, with a uid, keeps the key of a list that has become empty
RequestList_remove_keeps_empty_key(rl, key, uid) ==
    IF uid # None
    THEN LET present  == key \in DOMAIN rl.list
             index    == IF present THEN Position(rl.list[key], uid[1]) ELSE 0
             response == IF index > 0 THEN Some(<< rl.list[key][index][2] >>) ELSE None
             l1       == IF index > 0
                         THEN [rl.list EXCEPT ![key] = RemoveAt(@, index)]
                         ELSE rl.list
         IN  [rl |-> [rl EXCEPT !.list = l1], ret |-> response]
    ELSE IF key \in DOMAIN rl.list
         THEN [rl  |-> [rl EXCEPT !.list = MapDel(rl.list, key),
                                  !.total_count = @ - 1,
                                  !.list_full = FALSE],
               ret |-> Some(Channels(rl.list[key]))]
         ELSE [rl |-> rl, ret |-> None]

\* a variant that, without uid, hands back only the first waiter's channel
RequestList_remove_first_only(rl, key, uid) ==
    IF uid # None
    THEN LET present  == key \in DOMAIN rl.list
             index    == IF present THEN Position(rl.list[key], uid[1]) ELSE 0
             response == IF index > 0 THEN Some(<< rl.list[key][index][2] >>) ELSE None
             l1       == IF index > 0
                         THEN [rl.list EXCEPT ![key] = RemoveAt(@, index)]
                         ELSE rl.list
         IN  IF key \in DOMAIN l1 /\ l1[key] = << >>
             THEN [rl  |-> [rl EXCEPT !.list = MapDel(l1, key),
                                      !.total_count = @ - 1,
                                      !.list_full = FALSE],
                   ret |-> response]
             ELSE [rl |-> [rl EXCEPT !.list = l1], ret |-> response]
    ELSE IF key \in DOMAIN rl.list
         THEN [rl  |-> [rl EXCEPT !.list = MapDel(rl.list, key),
                                  !.total_count = @ - 1,
                                  !.list_full = FALSE],
               ret |-> Some(<< rl.list[key][1][2] >>)]
         ELSE [rl |-> rl, ret |-> None]

\* a variant that, with a uid, drops the whole entry of the key
RequestList_remove_whole_entry(rl, key, uid) ==
    IF uid # None
    THEN LET present  == key \in DOMAIN rl.list
             index    == IF present THEN Position(rl.list[key], uid[1]) ELSE 0
             response == IF index > 0 THEN Some(<< rl.list[key][index][2] >>) ELSE None
         IN  IF index > 0
             THEN [rl  |-> [rl EXCEPT !.list = MapDel(rl.list, key),
                                      !.total_count = @ - 1,
                                      !.list_full = FALSE],
                   ret |-> response]
             ELSE [rl |-> rl, ret |-> response]
    ELSE IF key \in DOMAIN rl.list
         THEN [rl  |-> [rl EXCEPT !.list = MapDel(rl.list, key),
                                  !.total_count = @ - 1,
                                  !.list_full = FALSE],
               ret |-> Some(Channels(rl.list[key]))]
         ELSE [rl |-> rl, ret |-> None]

RequestList_remove(rl, key, uid) ==
    IF uid # None
    THEN LET present  == key \in DOMAIN rl.list
             index    == IF present THEN Position(rl.list[key], uid[1]) ELSE 0
             response == IF index > 0 THEN Some(<< rl.list[key][index][2] >>) ELSE None
             l1       == IF index > 0
                         THEN [rl.list EXCEPT ![key] = RemoveAt(@, index)]
                         ELSE rl.list
         IN  IF key \in DOMAIN l1 /\ l1[key] = << >>
             THEN [rl  |-> [rl EXCEPT !.list = MapDel(l1, key),
                                      !.total_count = @ - 1,
                                      !.list_full = FALSE],
                   ret |-> response]
             ELSE [rl |-> [rl EXCEPT !.list = l1], ret |-> response]
    ELSE IF key \in DOMAIN rl.list
         THEN [rl  |-> [rl EXCEPT !.list = MapDel(rl.list, key),
                                  !.total_count = @ - 1,
                                  !.list_full = FALSE],
               ret |-> Some(Channels(rl.list[key]))]
         ELSE [rl |-> rl, ret |-> None]

RequestList_is_full(rl) == rl.list_full

---------------------------------------------------------------------------
(* State.                                                                  *)

VARIABLES
    request_list,   \* NetworkTask.cache : RequestList (C2)
    taskPc,         \* "connecting" | "running" | "exited"
    backoff,        \* ws_connect's local backoff, in seconds
    conn,           \* the websocket: "none" | "open" | "closed" | "reset"
    toServer,       \* Request frames written and not yet read by the server
    toClient,       \* frames written by the server and not yet read by the task
    sdk_rx,         \* commands from the SDK to the task (mpsc, FIFO)
    task_tx,        \* number of Connected events queued for the SDK
    clientPc,       \* DIDCacheClient: "new" | "ready" | "stopped"
    cache,          \* DIDCacheClient.cache (C1): did hash -> document or NoDoc
    callPc,         \* per resolve call: "new" | "waiting" | "done"
    callDid,        \* per resolve call: its DID
    chan,           \* per resolve call: the messages sent into its oneshot channel
    calls,          \* resolve() calls started so far
    outages,        \* connection losses so far
    callRes,        \* per resolve call: what resolve returned
    entrySends,     \* history: per hash, Requests written for its current entry
    timeoutDrops,   \* history: per hash, entries dropped by a timeout so far
    firstReturned,  \* history: per DID, the document of the first successful
                    \*   resolve since the DID last left the cache
    lastReturned,   \* history: per DID, the document of the latest one
    afterRemove,    \* history: the DIDs removed by remove() with no resolve called
                    \*   or completed since
    resendCalls,    \* history: the calls that are the next resolve after a remove
    config          \* DIDCacheClient.config: the guards' limits and the mode

vars == <<request_list, taskPc, backoff, conn, toServer, toClient, sdk_rx,
          task_tx, clientPc, cache, callPc, callDid, chan, calls, outages,
          callRes, entrySends, timeoutDrops, firstReturned, lastReturned,
          afterRemove, resendCalls, config>>

taskVars == <<request_list, taskPc, backoff, conn, toServer, toClient, task_tx>>
callVars == <<callPc, callDid, calls, callRes>>
histVars == <<entrySends, timeoutDrops>>
cacheHist == <<firstReturned, lastReturned, afterRemove, resendCalls>>

Keys == DOMAIN request_list.list

\* the uids registered under a hash, in list order
Waiters(h) == IF h \in Keys THEN [i \in 1..Len(request_list.list[h]) |-> request_list.list[h][i][1]]
              ELSE << >>

Init ==
    /\ \E limit \in 0..MaxLimit : request_list = RequestList_new(limit)
    /\ taskPc = "connecting"
    /\ backoff = BackoffStart
    /\ conn = "none"
    /\ toServer = << >>
    /\ toClient = << >>
    /\ sdk_rx = << >>
    /\ task_tx = 0
    /\ clientPc = "new"
    /\ cache = [h \in Hashes |-> NoDoc]
    /\ callPc = [u \in CallIds |-> "new"]
    /\ callDid = [u \in CallIds |-> NoDid]
    /\ chan = [u \in CallIds |-> << >>]
    /\ calls = 0
    /\ outages = 0
    /\ entrySends = [h \in Hashes |-> 0]
    /\ timeoutDrops = [h \in Hashes |-> 0]
    /\ callRes = [u \in CallIds |-> NoResult]
    /\ firstReturned = [d \in Dids |-> NoDoc]
    /\ lastReturned = [d \in Dids |-> NoDoc]
    /\ afterRemove = {}
    /\ resendCalls = {}
    /\ config = DefaultConfig

---------------------------------------------------------------------------
(* NetworkTask (network.rs).                                               *)

\* _handle_backoff: the new backoff, which is also the time slept
HandleBackoff(b) == IF b < BackoffCeiling THEN b + BackoffStep ELSE b

\* ws_connect, connection established: Connected is sent to the SDK (the
\* send waits while the channel is at capacity) and the socket is returned.
ConnectOk ==
    /\ taskPc = "connecting"
    /\ task_tx < ChannelCap
    /\ task_tx' = task_tx + 1
    /\ taskPc' = "running"
    /\ conn' = "open"
    /\ toServer' = << >>
    /\ toClient' = << >>
    /\ UNCHANGED <<request_list, backoff, sdk_rx, clientPc, cache, chan,
                   outages>>
    /\ UNCHANGED callVars
    /\ UNCHANGED cacheHist
    /\ UNCHANGED histVars
    /\ UNCHANGED config

\* ws_connect, connection error or connect timeout: back off and retry
ConnectFail ==
    /\ taskPc = "connecting"
    /\ (backoff - BackoffStart) \div BackoffStep < MaxConnFails
    /\ backoff' = HandleBackoff(backoff)
    /\ UNCHANGED <<request_list, taskPc, conn, toServer, toClient, sdk_rx,
                   task_tx, clientPc, cache, chan, outages>>
    /\ UNCHANGED callVars
    /\ UNCHANGED cacheHist
    /\ UNCHANGED histVars
    /\ UNCHANGED config

\* a variant of the select! that reads commands whatever the list's state
CommandBranchAlways == TRUE

\* the guard of the command branch of run's select!
CommandBranchEnabled == ~RequestList_is_full(request_list)

\* ws_send: the write succeeds on an open socket and fails otherwise
WsSendOk == conn = "open"

\* run, WSCommands::Send(channel, uid, request)
TaskSend ==
    /\ taskPc = "running"
    /\ CommandBranchEnabled
    /\ sdk_rx # << >>
    /\ Head(sdk_rx).op = "Send"
    /\ LET cmd      == Head(sdk_rx)
           did_hash == DidHash(cmd.did)
           r        == RequestList_insert(request_list, did_hash, cmd.uid, cmd.channel)
           written  == r.ret /\ WsSendOk
       IN  /\ request_list' = r.rl
           /\ toServer' = IF written
                          THEN Append(toServer, [did |-> cmd.did, hash |-> cmd.hash])
                          ELSE toServer
           /\ entrySends' = [entrySends EXCEPT ![did_hash] =
                                (IF did_hash \in Keys THEN @ ELSE 0)
                                + (IF written THEN 1 ELSE 0)]
    /\ sdk_rx' = Tail(sdk_rx)
    /\ UNCHANGED <<taskPc, backoff, conn, toClient, task_tx, clientPc, cache,
                   chan, outages, timeoutDrops>>
    /\ UNCHANGED callVars
    /\ UNCHANGED cacheHist
    /\ UNCHANGED config

\* a variant of the TimeOut arm that reads the command and leaves the pair
\* in the list
TaskTimeOutKeepsPair ==
    /\ taskPc = "running"
    /\ CommandBranchEnabled
    /\ sdk_rx # << >>
    /\ Head(sdk_rx).op = "TimeOut"
    /\ sdk_rx' = Tail(sdk_rx)
    /\ UNCHANGED <<request_list, taskPc, backoff, conn, toServer, toClient, task_tx,
                   clientPc, cache, chan, outages>>
    /\ UNCHANGED callVars
    /\ UNCHANGED cacheHist
    /\ UNCHANGED histVars
    /\ UNCHANGED config

\* run, WSCommands::TimeOut(uid, did_hash)
TaskTimeOut ==
    /\ taskPc = "running"
    /\ CommandBranchEnabled
    /\ sdk_rx # << >>
    /\ Head(sdk_rx).op = "TimeOut"
    /\ LET cmd == Head(sdk_rx)
           r   == RequestList_remove(request_list, cmd.hash, Some(cmd.uid))
           dropped == cmd.hash \in Keys /\ cmd.hash \notin DOMAIN r.rl.list
       IN  /\ request_list' = r.rl
           /\ entrySends' = IF dropped THEN [entrySends EXCEPT ![cmd.hash] = 0]
                            ELSE entrySends
           /\ timeoutDrops' = IF dropped THEN [timeoutDrops EXCEPT ![cmd.hash] = @ + 1]
                              ELSE timeoutDrops
    /\ sdk_rx' = Tail(sdk_rx)
    /\ UNCHANGED <<taskPc, backoff, conn, toServer, toClient, task_tx, clientPc,
                   cache, chan, outages>>
    /\ UNCHANGED callVars
    /\ UNCHANGED cacheHist
    /\ UNCHANGED config

\* a variant of the Exit arm that is also taken inside the connect loop
TaskExitWhileConnecting ==
    /\ taskPc \in {"running", "connecting"}
    /\ CommandBranchEnabled
    /\ sdk_rx # << >>
    /\ Head(sdk_rx).op = "Exit"
    /\ taskPc' = "exited"
    /\ sdk_rx' = Tail(sdk_rx)
    /\ UNCHANGED <<request_list, backoff, conn, toServer, toClient, task_tx,
                   clientPc, cache, chan, outages>>
    /\ UNCHANGED callVars
    /\ UNCHANGED cacheHist
    /\ UNCHANGED histVars
    /\ UNCHANGED config

\* run, WSCommands::Exit
TaskExit ==
    /\ taskPc = "running"
    /\ CommandBranchEnabled
    /\ sdk_rx # << >>
    /\ Head(sdk_rx).op = "Exit"
    /\ taskPc' = "exited"
    /\ sdk_rx' = Tail(sdk_rx)
    /\ UNCHANGED <<request_list, backoff, conn, toServer, toClient, task_tx,
                   clientPc, cache, chan, outages>>
    /\ UNCHANGED callVars
    /\ UNCHANGED cacheHist
    /\ UNCHANGED histVars
    /\ UNCHANGED config

\* a text frame that is not the JSON of any message of the protocol, as it
\* lies in the queue to the server and in the queue to the client
UndecodableRequest == [did |-> NoDid, hash |-> "undecodable"]
UndecodableResponse ==
    [type |-> "Undecodable", did |-> NoDid, hash |-> "undecodable", body |-> NoDoc]

\* serde_json::from_str::<WSRequest>(msg) is Ok
WSRequest_decodes(frame) == frame # UndecodableRequest

\* serde_json::from_str::<WSResponseType>(msg) is Ok
WSResponseType_decodes(frame) == frame.type \in {"Response", "Error"}

\* the message a frame is turned into for the waiting callers
FrameMessage(frame) ==
    IF frame.type = "Response"
    THEN [type |-> "ResponseReceived", body |-> frame.body]
    ELSE [type |-> "ErrorReceived", body |-> frame.body]

\* channel.send(..) for every channel of channels
Notify(ch, channels, msg) ==
    [u \in DOMAIN ch |->
        IF \E i \in 1..Len(channels) : channels[i] = u
        THEN ch[u] \o [i \in 1..Cardinality({j \in 1..Len(channels) : channels[j] = u}) |-> msg]
        ELSE ch[u]]

\* run + ws_recv, a text frame that decodes to a Response or an Error
TaskRecvFrame ==
    /\ taskPc = "running"
    /\ conn \in {"open", "closed"}
    /\ toClient # << >>
    /\ WSResponseType_decodes(Head(toClient))
    /\ LET frame == Head(toClient)
           r     == RequestList_remove(request_list, frame.hash, None)
       IN  /\ request_list' = r.rl
           /\ chan' = IF r.ret # None THEN Notify(chan, r.ret[1], FrameMessage(frame))
                      ELSE chan
           /\ entrySends' = [entrySends EXCEPT ![frame.hash] = 0]
    /\ toClient' = Tail(toClient)
    /\ UNCHANGED <<taskPc, backoff, conn, toServer, sdk_rx, task_tx, clientPc,
                   cache, outages, timeoutDrops>>
    /\ UNCHANGED callVars
    /\ UNCHANGED cacheHist
    /\ UNCHANGED config

\* run + ws_recv, a text frame that does not decode: "Error parsing message"
TaskRecvUndecodable ==
    /\ taskPc = "running"
    /\ conn \in {"open", "closed"}
    /\ toClient # << >>
    /\ ~WSResponseType_decodes(Head(toClient))
    /\ toClient' = Tail(toClient)
    /\ UNCHANGED <<request_list, taskPc, backoff, conn, toServer, sdk_rx, task_tx,
                   clientPc, cache, chan, outages>>
    /\ UNCHANGED callVars
    /\ UNCHANGED cacheHist
    /\ UNCHANGED histVars
    /\ UNCHANGED config

\* a variant of the reset in which the task starts over with an empty C2
TaskRecvErrorResetsC2 ==
    /\ taskPc = "running"
    /\ conn = "reset"
    /\ taskPc' = "connecting"
    /\ backoff' = BackoffStart
    /\ conn' = "none"
    /\ request_list' = RequestList_new(request_list.limit_count)
    /\ UNCHANGED <<toServer, toClient, sdk_rx, task_tx, clientPc,
                   cache, chan, outages>>
    /\ UNCHANGED callVars
    /\ UNCHANGED cacheHist
    /\ UNCHANGED histVars
    /\ UNCHANGED config

\* run + ws_recv, Some(Err(e)): the connection is reset through ws_connect
TaskRecvError ==
    /\ taskPc = "running"
    /\ conn = "reset"
    /\ taskPc' = "connecting"
    /\ backoff' = BackoffStart
    /\ conn' = "none"
    /\ UNCHANGED <<request_list, toServer, toClient, sdk_rx, task_tx, clientPc,
                   cache, chan, outages>>
    /\ UNCHANGED callVars
    /\ UNCHANGED cacheHist
    /\ UNCHANGED histVars
    /\ UNCHANGED config

\* run + ws_recv, None (the read stream has ended): "No message received"
TaskRecvNone ==
    /\ taskPc = "running"
    /\ conn = "closed"
    /\ toClient = << >>
    /\ UNCHANGED vars

---------------------------------------------------------------------------
(* The server's per-connection loop (websocket.rs, handle_socket) and the  *)
(* transport.                                                              *)

\* resolve succeeded: the Response carries the hash the server computed
ServerRespond ==
    /\ conn = "open"
    /\ toServer # << >>
    /\ WSRequest_decodes(Head(toServer))
    /\ \E doc \in Docs :
          LET request == Head(toServer)
          IN  toClient' = Append(toClient, [type |-> "Response", did |-> request.did,
                                            hash |-> DidHash(request.did), body |-> doc])
    /\ toServer' = Tail(toServer)
    /\ UNCHANGED <<request_list, taskPc, backoff, conn, sdk_rx, task_tx, clientPc,
                   cache, chan, outages>>
    /\ UNCHANGED callVars
    /\ UNCHANGED cacheHist
    /\ UNCHANGED histVars
    /\ UNCHANGED config

\* a variant of the failure branch that closes the connection after the
\* Error frame
ServerErrorCloses ==
    /\ conn = "open"
    /\ toServer # << >>
    /\ WSRequest_decodes(Head(toServer))
    /\ LET request == Head(toServer)
       IN  toClient' = Append(toClient, [type |-> "Error", did |-> request.did,
                                         hash |-> request.hash, body |-> "resolve error"])
    /\ toServer' = << >>
    /\ conn' = "closed"
    /\ UNCHANGED <<request_list, taskPc, backoff, sdk_rx, task_tx, clientPc,
                   cache, chan, outages>>
    /\ UNCHANGED callVars
    /\ UNCHANGED cacheHist
    /\ UNCHANGED histVars
    /\ UNCHANGED config

\* resolve failed: the Error carries the hash of the Request
ServerError ==
    /\ conn = "open"
    /\ toServer # << >>
    /\ WSRequest_decodes(Head(toServer))
    /\ LET request == Head(toServer)
       IN  toClient' = Append(toClient, [type |-> "Error", did |-> request.did,
                                         hash |-> request.hash, body |-> "resolve error"])
    /\ toServer' = Tail(toServer)
    /\ UNCHANGED <<request_list, taskPc, backoff, conn, sdk_rx, task_tx, clientPc,
                   cache, chan, outages>>
    /\ UNCHANGED callVars
    /\ UNCHANGED cacheHist
    /\ UNCHANGED histVars
    /\ UNCHANGED config

\* the server closes the connection: the task's read stream ends
ServerClose ==
    /\ conn = "open"
    /\ outages < MaxOutages
    /\ outages' = outages + 1
    /\ conn' = "closed"
    /\ toServer' = << >>
    /\ UNCHANGED <<request_list, taskPc, backoff, toClient, sdk_rx, task_tx,
                   clientPc, cache, chan>>
    /\ UNCHANGED callVars
    /\ UNCHANGED cacheHist
    /\ UNCHANGED histVars
    /\ UNCHANGED config

\* the text frame does not decode to a WSRequest: "Error parsing message",
\* break, and the connection is closed with what was still unread
ServerRecvUndecodable ==
    /\ conn = "open"
    /\ toServer # << >>
    /\ ~WSRequest_decodes(Head(toServer))
    /\ conn' = "closed"
    /\ toServer' = << >>
    /\ UNCHANGED <<request_list, taskPc, backoff, toClient, sdk_rx, task_tx,
                   clientPc, cache, chan, outages>>
    /\ UNCHANGED callVars
    /\ UNCHANGED cacheHist
    /\ UNCHANGED histVars
    /\ UNCHANGED config

\* the text frames that a client which is not this SDK can write: a Request
\* whose hash field is or is not the digest of its did field, or a text
\* that is no Request
PeerRequests ==
    {[did |-> "did:web:a", hash |-> h] : h \in {DidHash("did:web:a"), DidHash("did:web:b")}}
    \cup {UndecodableRequest}

\* the client end of the connection writes a frame of its own
PeerSend ==
    /\ conn = "open"
    /\ Len(toServer) + Len(toClient) < MaxWire
    /\ \E frame \in PeerRequests : toServer' = Append(toServer, frame)
    /\ UNCHANGED <<request_list, taskPc, backoff, conn, toClient, sdk_rx, task_tx,
                   clientPc, cache, chan, outages>>
    /\ UNCHANGED callVars
    /\ UNCHANGED cacheHist
    /\ UNCHANGED histVars
    /\ UNCHANGED config

\* the server end of the connection writes a text that is no message of the
\* protocol
PeerFrame ==
    /\ conn = "open"
    /\ Len(toServer) + Len(toClient) < MaxWire
    /\ toClient' = Append(toClient, UndecodableResponse)
    /\ UNCHANGED <<request_list, taskPc, backoff, conn, toServer, sdk_rx, task_tx,
                   clientPc, cache, chan, outages>>
    /\ UNCHANGED callVars
    /\ UNCHANGED cacheHist
    /\ UNCHANGED histVars
    /\ UNCHANGED config

\* the transport breaks: the task's next read is an error
TransportReset ==
    /\ conn = "open"
    /\ outages < MaxOutages
    /\ outages' = outages + 1
    /\ conn' = "reset"
    /\ toServer' = << >>
    /\ toClient' = << >>
    /\ UNCHANGED <<request_list, taskPc, backoff, sdk_rx, task_tx, clientPc,
                   cache, chan>>
    /\ UNCHANGED callVars
    /\ UNCHANGED cacheHist
    /\ UNCHANGED histVars
    /\ UNCHANGED config

---------------------------------------------------------------------------
(* DIDCacheClient (lib.rs) and its callers.                                *)

\* a variant of new that returns without waiting for Connected
ClientNewNoWait ==
    /\ clientPc = "new"
    /\ task_tx' = IF task_tx > 0 THEN task_tx - 1 ELSE task_tx
    /\ clientPc' = "ready"
    /\ UNCHANGED <<request_list, taskPc, backoff, conn, toServer, toClient,
                   sdk_rx, cache, chan, outages>>
    /\ UNCHANGED callVars
    /\ UNCHANGED histVars
    /\ UNCHANGED cacheHist
    /\ UNCHANGED config

\* new: the constructor returns once it has read Connected
ClientNew ==
    /\ clientPc = "new"
    /\ task_tx > 0
    /\ task_tx' = task_tx - 1
    /\ clientPc' = "ready"
    /\ UNCHANGED <<request_list, taskPc, backoff, conn, toServer, toClient,
                   sdk_rx, cache, chan, outages>>
    /\ UNCHANGED callVars
    /\ UNCHANGED histVars
    /\ UNCHANGED cacheHist
    /\ UNCHANGED config

\* The DIDs of known methods that a new call may name: one that an earlier
\* call named, or the first one that no call has named yet.  These DIDs differ
\* in nothing but their names, so every other choice is one of these with the
\* names permuted.
UsedDids == {callDid[u] : u \in 1..calls}

CallableDids ==
    UsedDids \cup
    (IF "did:web:a" \notin UsedDids THEN {"did:web:a"}
     ELSE IF "did:web:b" \notin UsedDids THEN {"did:web:b"}
     ELSE IF "did:key:c" \notin UsedDids THEN {"did:key:c"}
     ELSE {})

\* some resolve of did is between its cache lookup and its return
InFlight(did) == \E u \in CallIds : callPc[u] = "waiting" /\ callDid[u] = did

\* resolve, the guards pass and the document is in the cache
ResolveHit(did) ==
    /\ clientPc = "ready"
    /\ calls < MaxCalls
    /\ cache[DidHash(did)] # NoDoc
    /\ calls' = calls + 1
    /\ callPc' = [callPc EXCEPT ![calls + 1] = "done"]
    /\ callDid' = [callDid EXCEPT ![calls + 1] = did]
    /\ LET method == DIDMethod_try_from(MethodToken(did))
           doc    == cache[DidHash(did)]
       IN  /\ callRes' = [callRes EXCEPT ![calls + 1] =
                             IF method.ok THEN Ok(doc, TRUE) ELSE Err(method.value)]
           /\ firstReturned' = [firstReturned EXCEPT ![did] =
                                   IF method.ok /\ @ = NoDoc THEN doc ELSE @]
           /\ lastReturned' = [lastReturned EXCEPT ![did] =
                                  IF method.ok THEN doc ELSE @]
    /\ afterRemove' = afterRemove \ {did}
    /\ UNCHANGED <<request_list, taskPc, backoff, conn, toServer, toClient,
                   sdk_rx, task_tx, clientPc, cache, chan, outages, resendCalls>>
    /\ UNCHANGED histVars
    /\ UNCHANGED config

\* resolve, the guards pass and the document is not in the cache (network
\* mode): network_resolve creates the uid and the oneshot channel and sends
\* submit(did, uid, reply_channel) to the task.  The command channel never
\* fills within the bounds, so the send follows the lookup at once.
ResolveMiss(did) ==
    /\ clientPc = "ready"
    /\ calls < MaxCalls
    /\ cache[DidHash(did)] = NoDoc
    /\ taskPc # "exited"
    /\ Len(sdk_rx) < ChannelCap
    /\ calls' = calls + 1
    /\ callPc' = [callPc EXCEPT ![calls + 1] = "waiting"]
    /\ callDid' = [callDid EXCEPT ![calls + 1] = did]
    /\ sdk_rx' = Append(sdk_rx, [op |-> "Send", channel |-> calls + 1,
                                 uid |-> calls + 1, did |-> did,
                                 hash |-> DidHash(did)])
    /\ afterRemove' = afterRemove \ {did}
    /\ resendCalls' = IF did \in afterRemove /\ ~InFlight(did)
                      THEN resendCalls \cup {calls + 1}
                      ELSE resendCalls
    /\ UNCHANGED <<request_list, taskPc, backoff, conn, toServer, toClient,
                   task_tx, clientPc, cache, chan, outages, callRes,
                   firstReturned, lastReturned>>
    /\ UNCHANGED histVars
    /\ UNCHANGED config

\* a variant of the miss path that returns the document without caching it
ReplyOkNoInsert(u) ==
    /\ callPc[u] = "waiting"
    /\ chan[u] # << >>
    /\ Head(chan[u]).type = "ResponseReceived"
    /\ callPc' = [callPc EXCEPT ![u] = "done"]
    /\ LET method == DIDMethod_try_from(MethodToken(callDid[u]))
           doc    == Head(chan[u]).body
       IN  /\ callRes' = [callRes EXCEPT ![u] =
                             IF method.ok THEN Ok(doc, FALSE) ELSE Err(method.value)]
           /\ firstReturned' = [firstReturned EXCEPT ![callDid[u]] =
                                   IF method.ok /\ @ = NoDoc THEN doc ELSE @]
           /\ lastReturned' = [lastReturned EXCEPT ![callDid[u]] =
                                  IF method.ok THEN doc ELSE @]
    /\ afterRemove' = afterRemove \ {callDid[u]}
    /\ UNCHANGED <<request_list, taskPc, backoff, conn, toServer, toClient,
                   sdk_rx, task_tx, clientPc, cache, chan, outages, callDid, calls,
                   resendCalls>>
    /\ UNCHANGED histVars
    /\ UNCHANGED config

\* network_resolve returns the document; resolve inserts it, converts the
\* method token and returns
ReplyOk(u) ==
    /\ callPc[u] = "waiting"
    /\ chan[u] # << >>
    /\ Head(chan[u]).type = "ResponseReceived"
    /\ cache' = [cache EXCEPT ![DidHash(callDid[u])] = Head(chan[u]).body]
    /\ callPc' = [callPc EXCEPT ![u] = "done"]
    /\ LET method == DIDMethod_try_from(MethodToken(callDid[u]))
           doc    == Head(chan[u]).body
       IN  /\ callRes' = [callRes EXCEPT ![u] =
                             IF method.ok THEN Ok(doc, FALSE) ELSE Err(method.value)]
           /\ firstReturned' = [firstReturned EXCEPT ![callDid[u]] =
                                   IF method.ok /\ @ = NoDoc THEN doc ELSE @]
           /\ lastReturned' = [lastReturned EXCEPT ![callDid[u]] =
                                  IF method.ok THEN doc ELSE @]
    /\ afterRemove' = afterRemove \ {callDid[u]}
    /\ UNCHANGED <<request_list, taskPc, backoff, conn, toServer, toClient,
                   sdk_rx, task_tx, clientPc, chan, outages, callDid, calls,
                   resendCalls>>
    /\ UNCHANGED histVars
    /\ UNCHANGED config

\* network_resolve returns the remote error; resolve returns it
ReplyErr(u) ==
    /\ callPc[u] = "waiting"
    /\ chan[u] # << >>
    /\ Head(chan[u]).type = "ErrorReceived"
    /\ callPc' = [callPc EXCEPT ![u] = "done"]
    /\ callRes' = [callRes EXCEPT ![u] = Err("DIDError")]
    /\ UNCHANGED <<request_list, taskPc, backoff, conn, toServer, toClient,
                   sdk_rx, task_tx, clientPc, cache, chan, outages, callDid, calls>>
    /\ UNCHANGED histVars
    /\ UNCHANGED cacheHist
    /\ UNCHANGED config

\* network_resolve: the deadline fires; timeout(did_hash, uid) is sent to the
\* task and Timeout is returned
Deadline(u) ==
    /\ callPc[u] = "waiting"
    /\ taskPc # "exited"
    /\ Len(sdk_rx) < ChannelCap
    /\ sdk_rx' = Append(sdk_rx, [op |-> "TimeOut", uid |-> u,
                                 hash |-> DidHash(callDid[u])])
    /\ callPc' = [callPc EXCEPT ![u] = "done"]
    /\ callRes' = [callRes EXCEPT ![u] = Err("Timeout")]
    /\ UNCHANGED <<request_list, taskPc, backoff, conn, toServer, toClient,
                   task_tx, clientPc, cache, chan, outages, callDid, calls>>
    /\ UNCHANGED histVars
    /\ UNCHANGED cacheHist
    /\ UNCHANGED config

\* stop: Exit is sent to the task; the caller makes no further call
ClientStop ==
    /\ clientPc = "ready"
    /\ taskPc # "exited"
    /\ Len(sdk_rx) < ChannelCap
    /\ sdk_rx' = Append(sdk_rx, [op |-> "Exit"])
    /\ clientPc' = "stopped"
    /\ UNCHANGED <<request_list, taskPc, backoff, conn, toServer, toClient,
                   task_tx, cache, chan, outages>>
    /\ UNCHANGED callVars
    /\ UNCHANGED histVars
    /\ UNCHANGED cacheHist
    /\ UNCHANGED config

\* Cache::remove(key): the cache afterwards and the value returned
Cache_remove(c, key) ==
    IF key \in DOMAIN c /\ c[key] # NoDoc
    THEN [cache |-> [c EXCEPT ![key] = NoDoc], ret |-> Some(c[key])]
    ELSE [cache |-> c, ret |-> None]

\* a variant of remove that looks the DID up under another digest
DIDCacheClient_remove_sha256(c, did) == Cache_remove(c, "sha256_of_did")

\* remove: the DID is hashed as in resolve and removed from the cache
DIDCacheClient_remove(c, did) == Cache_remove(c, DidHash(did))

\* a variant of remove that also forgets the requests in flight for the DID
CacheRemoveDropsWaiters(did) ==
    /\ clientPc = "ready"
    /\ cache[DidHash(did)] # NoDoc
    /\ cache' = DIDCacheClient_remove(cache, did).cache
    /\ request_list' = RequestList_remove(request_list, DidHash(did), None).rl
    /\ firstReturned' = [firstReturned EXCEPT ![did] = NoDoc]
    /\ lastReturned' = [lastReturned EXCEPT ![did] = NoDoc]
    /\ afterRemove' = afterRemove \cup {did}
    /\ UNCHANGED <<taskPc, backoff, conn, toServer, toClient,
                   sdk_rx, task_tx, clientPc, chan, outages, resendCalls>>
    /\ UNCHANGED callVars
    /\ UNCHANGED histVars
    /\ UNCHANGED config

\* remove(did) of a cached DID (for a DID that is not cached, remove changes
\* nothing and returns None)
CacheRemove(did) ==
    /\ clientPc = "ready"
    /\ cache[DidHash(did)] # NoDoc
    /\ cache' = DIDCacheClient_remove(cache, did).cache
    /\ firstReturned' = [firstReturned EXCEPT ![did] = NoDoc]
    /\ lastReturned' = [lastReturned EXCEPT ![did] = NoDoc]
    /\ afterRemove' = afterRemove \cup {did}
    /\ UNCHANGED <<request_list, taskPc, backoff, conn, toServer, toClient,
                   sdk_rx, task_tx, clientPc, chan, outages, resendCalls>>
    /\ UNCHANGED callVars
    /\ UNCHANGED histVars
    /\ UNCHANGED config

\* the cache drops an entry: its time to live has passed, or the capacity is
\* exceeded
CacheEvict(did) ==
    /\ cache[DidHash(did)] # NoDoc
    /\ cache' = [cache EXCEPT ![DidHash(did)] = NoDoc]
    /\ firstReturned' = [firstReturned EXCEPT ![did] = NoDoc]
    /\ lastReturned' = [lastReturned EXCEPT ![did] = NoDoc]
    /\ UNCHANGED <<request_list, taskPc, backoff, conn, toServer, toClient,
                   sdk_rx, task_tx, clientPc, chan, outages, afterRemove,
                   resendCalls>>
    /\ UNCHANGED callVars
    /\ UNCHANGED histVars
    /\ UNCHANGED config

---------------------------------------------------------------------------
(* resolve as a function of the configuration, the document cache, the DID *)
(* and what the dispatched resolver yields (lib.rs, resolve).              *)

\* what resolve returns
ResolveOk(doc, hit, method) ==
    [kind |-> "Ok", doc |-> doc, cache_hit |-> hit, method |-> method]
ResolveErr(kind, msg) == [kind |-> kind, msg |-> msg]

\* what the dispatched resolver yields for a DID: a document, or the failure
\* of the method resolver (local mode), or a remote Error frame or the
\* deadline (network mode)
DispatchOk(doc) == [kind |-> "Ok", doc |-> doc]
DispatchErr(kind, msg) == [kind |-> kind, doc |-> NoDoc, msg |-> msg]
LocalOutcomes == {DispatchOk(d) : d \in Docs} \cup {DispatchErr("DIDError", "resolver")}
NetworkOutcomes ==
    {DispatchOk(d) : d \in Docs}
    \cup {DispatchErr("DIDError", "remote"), DispatchErr("Timeout", "deadline")}

\* a variant of the size guard that rejects at the limit
SizeGuardRejectsAtLimit(cfg, did) ==
    DidLen(did) >= cfg.max_did_size_in_kb * BYTES_PER_KILO_BYTE

\* did.len() as f64 / BYTES_PER_KILO_BYTE > max_did_size_in_kb
SizeGuardRejects(cfg, did) ==
    DidLen(did) > cfg.max_did_size_in_kb * BYTES_PER_KILO_BYTE

\* a variant of the shape guard that asks for two segments
ShapeGuardRejectsBelowTwo(parts) == Len(parts) < 2

\* parts.len() < 3
ShapeGuardRejects(parts) == Len(parts) < 3

\* a variant of the parts guard that rejects at the limit
PartsGuardRejectsAtLimit(cfg, key_parts) == Len(key_parts) >= cfg.max_did_parts

\* key_parts.len() > max_did_parts
PartsGuardRejects(cfg, key_parts) == Len(key_parts) > cfg.max_did_parts

\* local_resolve: the match on parts[1]
local_resolve(parts, outcome) ==
    IF PieceText(parts[2]) \in {"ethr", "jwk", "key", "peer", "pkh", "web"}
    THEN outcome
    ELSE DispatchErr("DIDError", "DID Method not supported")

\* parts[1].try_into()?, and the response or the error that resolve returns
\* after it
ResolveResponse(parts, doc, hit) ==
    LET method == DIDMethod_try_from(PieceText(parts[2]))
    IN  IF method.ok THEN ResolveOk(doc, hit, method.value)
        ELSE ResolveErr(method.value, PieceText(parts[2]))

\* a variant of resolve that looks the DID up in the cache before the guards
DIDCacheClient_resolve_lookup_first(cfg, c, did, outcome) ==
    LET did_hash  == Blake2sHex(did)
        parts     == Split(did, Colon)
        key_parts == Split(parts[Len(parts)], Dot)
    IN  IF c[did_hash] # NoDoc /\ Len(parts) >= 2
        THEN [res |-> ResolveResponse(parts, c[did_hash], TRUE), cache |-> c,
              trace |-> <<"hash", "cache.get">>]
        ELSE IF SizeGuardRejects(cfg, did)
        THEN [res |-> ResolveErr("DIDError", "size"), cache |-> c,
              trace |-> <<"hash", "cache.get", "size guard">>]
        ELSE IF ShapeGuardRejects(parts)
        THEN [res |-> ResolveErr("DIDError", "shape"), cache |-> c,
              trace |-> <<"hash", "cache.get", "size guard", "shape guard">>]
        ELSE IF PartsGuardRejects(cfg, key_parts)
        THEN [res |-> ResolveErr("DIDError", "parts"), cache |-> c,
              trace |-> <<"hash", "cache.get", "size guard", "shape guard", "parts guard">>]
        ELSE LET network == cfg.service_address # None
                 doc     == IF network THEN outcome ELSE local_resolve(parts, outcome)
                 steps   == <<"hash", "cache.get", "size guard", "shape guard", "parts guard",
                              IF network THEN "network_resolve" ELSE "local_resolve">>
             IN  IF doc.kind # "Ok"
                 THEN [res |-> ResolveErr(doc.kind, doc.msg), cache |-> c, trace |-> steps]
                 ELSE [res |-> ResolveResponse(parts, doc.doc, FALSE),
                       cache |-> [c EXCEPT ![did_hash] = doc.doc],
                       trace |-> Append(steps, "cache.insert")]

\* resolve: what it returns, the cache afterwards, and the steps it takes
DIDCacheClient_resolve(cfg, c, did, outcome) ==
    LET did_hash  == Blake2sHex(did)
        parts     == Split(did, Colon)
        key_parts == Split(parts[Len(parts)], Dot)
    IN  IF SizeGuardRejects(cfg, did)
        THEN [res |-> ResolveErr("DIDError", "size"), cache |-> c,
              trace |-> <<"size guard">>]
        ELSE IF ShapeGuardRejects(parts)
        THEN [res |-> ResolveErr("DIDError", "shape"), cache |-> c,
              trace |-> <<"size guard", "hash", "shape guard">>]
        ELSE IF PartsGuardRejects(cfg, key_parts)
        THEN [res |-> ResolveErr("DIDError", "parts"), cache |-> c,
              trace |-> <<"size guard", "hash", "shape guard", "parts guard">>]
        ELSE IF c[did_hash] # NoDoc
        THEN [res |-> ResolveResponse(parts, c[did_hash], TRUE), cache |-> c,
              trace |-> <<"size guard", "hash", "shape guard", "parts guard", "cache.get">>]
        ELSE LET network == cfg.service_address # None
                 doc     == IF network THEN outcome ELSE local_resolve(parts, outcome)
                 steps   == <<"size guard", "hash", "shape guard", "parts guard", "cache.get",
                              IF network THEN "network_resolve" ELSE "local_resolve">>
             IN  IF doc.kind # "Ok"
                 THEN [res |-> ResolveErr(doc.kind, doc.msg), cache |-> c, trace |-> steps]
                 ELSE [res |-> ResolveResponse(parts, doc.doc, FALSE),
                       cache |-> [c EXCEPT ![did_hash] = doc.doc],
                       trace |-> Append(steps, "cache.insert")]

\* the outcomes that the dispatch of the configured mode can have
Outcomes(cfg) == IF cfg.service_address # None THEN NetworkOutcomes ELSE LocalOutcomes

\* a client of any configuration, with an empty cache over the DIDs of the
\* guards
GuardInit ==
    /\ request_list = RequestList_new(0)
    /\ taskPc = "connecting"
    /\ backoff = BackoffStart
    /\ conn = "none"
    /\ toServer = << >>
    /\ toClient = << >>
    /\ sdk_rx = << >>
    /\ task_tx = 0
    /\ clientPc = "ready"
    /\ cache = [h \in GuardHashes |-> NoDoc]
    /\ callPc = [u \in CallIds |-> "new"]
    /\ callDid = [u \in CallIds |-> NoDid]
    /\ chan = [u \in CallIds |-> << >>]
    /\ calls = 0
    /\ outages = 0
    /\ entrySends = [h \in Hashes |-> 0]
    /\ timeoutDrops = [h \in Hashes |-> 0]
    /\ callRes = [u \in CallIds |-> NoResult]
    /\ firstReturned = [d \in Dids |-> NoDoc]
    /\ lastReturned = [d \in Dids |-> NoDoc]
    /\ afterRemove = {}
    /\ resendCalls = {}
    /\ config \in ClientConfigs

\* one call of resolve, from its entry to its return
GuardResolve(did, outcome) ==
    /\ calls < MaxGuardCalls
    /\ LET r == DIDCacheClient_resolve(config, cache, did, outcome)
       IN  /\ cache' = r.cache
           /\ callRes' = [callRes EXCEPT ![calls + 1] = r.res]
    /\ calls' = calls + 1
    /\ callPc' = [callPc EXCEPT ![calls + 1] = "done"]
    /\ callDid' = [callDid EXCEPT ![calls + 1] = did]
    /\ UNCHANGED <<request_list, taskPc, backoff, conn, toServer, toClient,
                   sdk_rx, task_tx, clientPc, chan, outages, config>>
    /\ UNCHANGED histVars
    /\ UNCHANGED cacheHist

GuardNext == \E did \in GuardDids : \E outcome \in Outcomes(config) : GuardResolve(did, outcome)

GuardSpec == GuardInit /\ [][GuardNext]_vars

\* get_cache().insert(hash, doc): the application puts a document into the
\* cache itself, for any DID
GuardCacheInsert(did, doc) ==
    /\ calls = 0
    /\ \A h \in GuardHashes : cache[h] = NoDoc
    /\ cache' = [cache EXCEPT ![Blake2sHex(did)] = doc]
    /\ UNCHANGED <<request_list, taskPc, backoff, conn, toServer, toClient,
                   sdk_rx, task_tx, clientPc, chan, outages, config>>
    /\ UNCHANGED callVars
    /\ UNCHANGED histVars
    /\ UNCHANGED cacheHist

\* resolve on a cache that the application has seeded
SeededNext ==
    \/ (calls < MaxSeededCalls /\ GuardNext)
    \/ \E did \in GuardDids : \E doc \in Docs : GuardCacheInsert(did, doc)

SeededSpec == GuardInit /\ [][SeededNext]_vars

---------------------------------------------------------------------------
(* The RequestList alone, under any sequence of insert and remove calls    *)
(* (request_queue.rs).                                                     *)

ListKeys == {DidHash("did:web:a"), DidHash("did:web:b"), DidHash("did:key:c")}
ListUids == 1..MaxListUids
ListChannels == 1..MaxListUids

ListInit ==
    /\ \E limit \in 0..MaxListLimit : request_list = RequestList_new(limit)
    /\ taskPc = "connecting"
    /\ backoff = BackoffStart
    /\ conn = "none"
    /\ toServer = << >>
    /\ toClient = << >>
    /\ sdk_rx = << >>
    /\ task_tx = 0
    /\ clientPc = "new"
    /\ cache = [h \in Hashes |-> NoDoc]
    /\ callPc = [u \in CallIds |-> "new"]
    /\ callDid = [u \in CallIds |-> NoDid]
    /\ chan = [u \in CallIds |-> << >>]
    /\ calls = 0
    /\ outages = 0
    /\ entrySends = [h \in Hashes |-> 0]
    /\ timeoutDrops = [h \in Hashes |-> 0]
    /\ callRes = [u \in CallIds |-> NoResult]
    /\ firstReturned = [d \in Dids |-> NoDoc]
    /\ lastReturned = [d \in Dids |-> NoDoc]
    /\ afterRemove = {}
    /\ resendCalls = {}
    /\ config = DefaultConfig

\* insert(key, uid, channel)
ListInsert(key, uid, channel) ==
    /\ key \in Keys => Len(request_list.list[key]) < MaxListWaiters
    /\ request_list' = RequestList_insert(request_list, key, uid, channel).rl
    /\ UNCHANGED <<taskPc, backoff, conn, toServer, toClient, sdk_rx, task_tx,
                   clientPc, cache, chan, outages, config>>
    /\ UNCHANGED callVars
    /\ UNCHANGED histVars
    /\ UNCHANGED cacheHist

\* remove(key, uid), uid being None or Some(uid)
ListRemove(key, uid) ==
    /\ request_list' = RequestList_remove(request_list, key, uid).rl
    /\ UNCHANGED <<taskPc, backoff, conn, toServer, toClient, sdk_rx, task_tx,
                   clientPc, cache, chan, outages, config>>
    /\ UNCHANGED callVars
    /\ UNCHANGED histVars
    /\ UNCHANGED cacheHist

ListNext ==
    \/ \E key \in ListKeys : \E uid \in ListUids : \E channel \in ListChannels :
          ListInsert(key, uid, channel)
    \/ \E key \in ListKeys : \E uid \in {None} \cup {Some(u) : u \in ListUids} :
          ListRemove(key, uid)

ListSpec == ListInit /\ [][ListNext]_vars

---------------------------------------------------------------------------
(* Specifications.                                                         *)

TaskNext ==
    \/ ConnectOk
    \/ ConnectFail
    \/ TaskSend
    \/ TaskTimeOut
    \/ TaskRecvFrame
    \/ TaskRecvError
    \/ TaskRecvNone

ServerNext ==
    \/ ServerRespond
    \/ ServerError
    \/ ServerClose
    \/ TransportReset

ClientNext ==
    \/ ClientNew
    \/ \E did \in CallableDids : ResolveHit(did)
    \/ \E did \in CallableDids : ResolveMiss(did)
    \/ \E u \in CallIds : ReplyOk(u)
    \/ \E u \in CallIds : ReplyErr(u)
    \/ \E u \in CallIds : Deadline(u)
    \/ \E did \in Dids : CacheRemove(did)
    \/ \E did \in Dids : CacheEvict(did)

Next == TaskNext \/ ServerNext \/ ClientNext

Spec == Init /\ [][Next]_vars

TypeOK ==
    /\ taskPc \in {"connecting", "running", "exited"}
    /\ request_list.total_count \in 0..(MaxLimit + 1)
    /\ Keys \subseteq Hashes

\* The program with stop(): the SDK may send Exit at any time after the
\* constructor has returned, and the task exits when it takes the command.
StopNext ==
    \/ (Next /\ calls' <= MaxStopCalls)
    \/ ClientStop
    \/ TaskExit

StopSpec == Init /\ [][StopNext]_vars

\* The connected pipeline under the scheduling the runtime guarantees: the
\* task's select! loop and the SDK constructor take a step whenever one stays
\* possible.  The connection is not lost and nothing is assumed about the
\* server answering.
FairNext ==
    \/ ConnectOk
    \/ TaskSend
    \/ TaskTimeOut
    \/ TaskRecvFrame
    \/ ServerRespond
    \/ ServerError
    \/ ClientNew
    \/ (calls < MaxFairCalls /\ \E did \in CallableDids : ResolveMiss(did))
    \/ \E u \in CallIds : ReplyOk(u)
    \/ \E u \in CallIds : ReplyErr(u)
    \/ \E u \in CallIds : Deadline(u)

FairSpec ==
    /\ Init
    /\ [][FairNext]_vars
    /\ WF_vars(ConnectOk)
    /\ WF_vars(ClientNew)
    /\ WF_vars(TaskSend)
    /\ WF_vars(TaskTimeOut)
    /\ WF_vars(TaskRecvFrame)

\* The program when the application also names a DID whose method the SDK
\* build does not know, and the server is one whose resolver knows it: the
\* server resolves the did field of the Request with its own resolver and
\* the SDK takes whatever Response frame arrives for the hash.
ResolvableDids == CallableDids \cup {"did:xyz:d"}

MethodNext ==
    \/ TaskNext
    \/ ServerNext
    \/ ClientNew
    \/ (calls < MaxMethodCalls /\ \E did \in ResolvableDids : ResolveHit(did))
    \/ (calls < MaxMethodCalls /\ \E did \in ResolvableDids : ResolveMiss(did))
    \/ \E u \in CallIds : ReplyOk(u)
    \/ \E u \in CallIds : ReplyErr(u)
    \/ \E u \in CallIds : Deadline(u)
    \/ \E did \in Dids : CacheRemove(did)
    \/ \E did \in Dids : CacheEvict(did)

MethodSpec == Init /\ [][MethodNext]_vars

\* The pipeline with a connection that can be lost, under the scheduling the
\* runtime guarantees: the select! loop takes a branch that stays ready, the
\* connect loop retries for ever, and the server is reachable again after
\* MaxConnFails failed attempts.
HealNext ==
    \/ TaskNext
    \/ ServerNext
    \/ ClientNew
    \/ (calls < MaxHealCalls /\ \E did \in CallableDids : ResolveMiss(did))
    \/ \E u \in CallIds : ReplyOk(u)
    \/ \E u \in CallIds : ReplyErr(u)
    \/ \E u \in CallIds : Deadline(u)

HealSpec ==
    /\ Init
    /\ [][HealNext]_vars
    /\ WF_vars(ConnectOk)
    /\ WF_vars(ClientNew)
    /\ WF_vars(TaskSend)
    /\ WF_vars(TaskTimeOut)
    /\ WF_vars(TaskRecvFrame)
    /\ WF_vars(TaskRecvError)

\* ws_connect, one failed or timed-out attempt, for any number of attempts
ConnectRetry ==
    /\ taskPc = "connecting"
    /\ backoff' = HandleBackoff(backoff)
    /\ UNCHANGED <<request_list, taskPc, conn, toServer, toClient, sdk_rx,
                   task_tx, clientPc, cache, chan, outages>>
    /\ UNCHANGED callVars
    /\ UNCHANGED cacheHist
    /\ UNCHANGED histVars
    /\ UNCHANGED config

\* The connect loop against a server that stays unreachable for any number
\* of attempts, with the calls that wait behind it.
BackoffNext ==
    \/ ConnectRetry
    \/ ConnectOk
    \/ TaskSend
    \/ TaskRecvError
    \/ TransportReset
    \/ ClientNew
    \/ (calls < MaxBackoffCalls /\ \E did \in CallableDids : ResolveMiss(did))
    \/ \E u \in CallIds : Deadline(u)

BackoffSpec == Init /\ [][BackoffNext]_vars

\* The pipeline with stop() under the scheduling the runtime guarantees: the
\* select! loop takes a branch that stays ready and the connect loop ends
\* once the server is reachable.  The transport may fail once, so that stop
\* can find the task in the connect loop; nothing is assumed about the
\* server answering.
FairStopNext ==
    \/ FairNext
    \/ ConnectFail
    \/ TaskRecvError
    \/ TransportReset
    \/ ClientStop
    \/ TaskExit

FairStopSpec ==
    /\ Init
    /\ [][FairStopNext]_vars
    /\ WF_vars(ConnectOk)
    /\ WF_vars(ClientNew)
    /\ WF_vars(TaskSend)
    /\ WF_vars(TaskTimeOut)
    /\ WF_vars(TaskExit)
    /\ WF_vars(TaskRecvFrame)
    /\ WF_vars(TaskRecvError)

\* the transport breaks, any number of times: the task's next read is an
\* error
TransportBreaks ==
    /\ conn = "open"
    /\ conn' = "reset"
    /\ toServer' = << >>
    /\ toClient' = << >>
    /\ UNCHANGED <<request_list, taskPc, backoff, sdk_rx, task_tx, clientPc,
                   cache, chan, outages>>
    /\ UNCHANGED callVars
    /\ UNCHANGED cacheHist
    /\ UNCHANGED histVars
    /\ UNCHANGED config

\* The task against a reachable server and a transport that may break any
\* number of times, under the scheduling the runtime guarantees: a read
\* error takes the task to the connect loop, and the connect loop ends once
\* the server is reachable and Connected can be put in the channel.
CycleNext ==
    \/ ConnectOk
    \/ ClientNew
    \/ TransportBreaks
    \/ TaskRecvError

CycleSpec ==
    /\ Init
    /\ [][CycleNext]_vars
    /\ WF_vars(ConnectOk)
    /\ WF_vars(ClientNew)
    /\ WF_vars(TaskRecvError)

\* The wire between the SDK and the server when either end may also carry
\* the frames of a program that is not built from this repository: on the
\* client end Requests with any hash field and texts that are no Request, on
\* the server end texts that are no Response and no Error.
WireNext ==
    \/ ConnectOk
    \/ ClientNew
    \/ (calls < MaxWireCalls /\ \E did \in CallableDids : ResolveMiss(did))
    \/ TaskSend
    \/ TaskRecvFrame
    \/ TaskRecvUndecodable
    \/ TaskRecvNone
    \/ ServerRespond
    \/ ServerError
    \/ ServerRecvUndecodable
    \/ PeerSend
    \/ PeerFrame
    \/ \E u \in CallIds : ReplyOk(u)
    \/ \E u \in CallIds : ReplyErr(u)

WireSpec == Init /\ [][WireNext]_vars

---------------------------------------------------------------------------
(* Vocabulary of the properties.                                           *)

\* Request frames for hash h written to the wire and not yet answered
Unanswered(h) == Cardinality({i \in 1..Len(toServer) : toServer[i].hash = h})

\* the reply channels registered under h, in list order
RegisteredChannels(h) == IF h \in Keys THEN Channels(request_list.list[h]) ELSE << >>

\* call u is registered in C2 under the hash of its DID
Registered(u) ==
    \E i \in 1..Len(Waiters(DidHash(callDid[u]))) : Waiters(DidHash(callDid[u]))[i] = u

SendPending(u) == \E i \in 1..Len(sdk_rx) : sdk_rx[i].op = "Send" /\ sdk_rx[i].uid = u

TimeOutPending(u) == \E i \in 1..Len(sdk_rx) : sdk_rx[i].op = "TimeOut" /\ sdk_rx[i].uid = u

\* the task takes the next command from the command channel
CommandStep == sdk_rx # << >> /\ sdk_rx' = Tail(sdk_rx)

\* the task takes the next frame from the socket
FrameStep ==
    /\ taskPc = "running"
    /\ toClient # << >>
    /\ toClient' = Tail(toClient)
    /\ conn' = conn

---------------------------------------------------------------------------
(* C1 *)

\* C1: whatever number of callers have submitted the same DID and are
\* registered under its hash, exactly one Request frame has been written to
\* the wire for that entry; and the frame that answers it hands the same
\* message (the same document) to every one of them.
C1_OneRequestSameDocument ==
    /\ [](\A h \in Keys : entrySends[h] = 1)
    /\ [][FrameStep =>
            LET h == Head(toClient).hash
            IN  \A i \in 1..Len(RegisteredChannels(h)) :
                   chan'[RegisteredChannels(h)[i]]
                     = Append(chan[RegisteredChannels(h)[i]], FrameMessage(Head(toClient)))]_vars

---------------------------------------------------------------------------
(* C2 *)

\* C2 as stated: for each did_hash at most one Request frame is written to
\* the wire and not yet answered.
C2_AtMostOneUnanswered == \A h \in Hashes : Unanswered(h) <= 1

\* C2 (amended): at most one Request frame is written for an entry of C2, and
\* the unanswered Request frames of a hash number at most one plus the entries
\* of that hash that a timeout has dropped.
C2_AtMostOnePerEntry ==
    /\ \A h \in Keys : entrySends[h] <= 1
    /\ \A h \in Hashes : Unanswered(h) <= 1 + timeoutDrops[h]

\* two unanswered Requests of one hash, the first from an entry that timed out
C2_Witness == \E h \in Hashes : Unanswered(h) = 2 /\ timeoutDrops[h] = 1 /\ h \in Keys

---------------------------------------------------------------------------
(* C3 *)

\* C3: when the task processes a Response or Error frame with hash h, the
\* channels it sends into are exactly those registered under h at that
\* moment, each once, and h is no key of C2 afterwards.
C3_FanOutExact ==
    [][FrameStep =>
         LET h   == Head(toClient).hash
             reg == {RegisteredChannels(h)[i] : i \in 1..Len(RegisteredChannels(h))}
         IN  /\ \A u \in CallIds :
                   chan'[u] = IF u \in reg
                              THEN Append(chan[u], FrameMessage(Head(toClient)))
                              ELSE chan[u]
             /\ h \notin DOMAIN request_list'.list]_vars

\* two callers coalesced on one hash have both been notified by its frame
C3_Witness ==
    \E u1, u2 \in CallIds :
        /\ u1 # u2
        /\ callDid[u1] = callDid[u2]
        /\ chan[u1] # << >>
        /\ chan[u1] = chan[u2]
        /\ DidHash(callDid[u1]) \notin Keys

---------------------------------------------------------------------------
(* C4 *)

---------------------------------------------------------------------------
(* C5 *)

\* C5: the task takes a command from the command channel only when C2 is
\* not full; while C2 is full, C2 changes only by the processing of a frame.
C5_CommandsOnlyWhenNotFull ==
    [][/\ CommandStep => ~RequestList_is_full(request_list)
       /\ (RequestList_is_full(request_list) /\ request_list' # request_list) => FrameStep]_vars

\* C2 is full, a submission and the shutdown wait in the command channel and
\* a frame is there to be processed
C5_Witness ==
    /\ RequestList_is_full(request_list)
    /\ taskPc = "running"
    /\ Len(sdk_rx) >= 2
    /\ sdk_rx[1].op = "Send"
    /\ sdk_rx[Len(sdk_rx)].op = "Exit"
    /\ toClient # << >>

---------------------------------------------------------------------------
(* C6 *)

\* C6: the number of distinct did_hash keys in C2 never exceeds
\* network_cache_limit_count + 1.
C6_KeysBounded == Cardinality(Keys) <= request_list.limit_count + 1

\* the bound is reached with more submissions waiting
C6_Witness ==
    /\ Cardinality(Keys) = request_list.limit_count + 1
    /\ \E i \in 1..Len(sdk_rx) : sdk_rx[i].op = "Send" /\ DidHash(sdk_rx[i].did) \notin Keys

---------------------------------------------------------------------------
(* C7 *)

\* C7: once a caller has issued timeout(did_hash, uid), the task eventually
\* removes the caller's pair from C2, whether or not a frame ever arrives.
C7_TimeoutEventuallyRemoves ==
    \A u \in CallIds : (TimeOutPending(u) ~> ~Registered(u))

---------------------------------------------------------------------------
(* C8 *)

\* no caller that still waits loses its registration to anything but the
\* frame that notifies it
NoWaiterLost ==
    \A u \in CallIds :
        (callPc[u] = "waiting" /\ ~SendPending(u) /\ chan[u] = << >>) => Registered(u)

\* C8: a timeout of one of several waiters of h removes exactly that
\* waiter's pair: the other pairs stay under h in their order, h stays a key,
\* no other key changes, total_count and list_full are unchanged; and the
\* other waiters stay registered until the frame for h notifies them.
C8_TimeoutRemovesOnlyOwnPair ==
    /\ []NoWaiterLost
    /\ [][(/\ CommandStep
           /\ Head(sdk_rx).op = "TimeOut"
           /\ Head(sdk_rx).hash \in Keys
           /\ Len(request_list.list[Head(sdk_rx).hash]) >= 2
           /\ \E i \in 1..Len(request_list.list[Head(sdk_rx).hash]) :
                 request_list.list[Head(sdk_rx).hash][i][1] = Head(sdk_rx).uid)
          =>
          LET h == Head(sdk_rx).hash
              Others(pair) == pair[1] # Head(sdk_rx).uid
          IN  /\ DOMAIN request_list'.list = Keys
              /\ request_list'.list[h] = SelectSeq(request_list.list[h], Others)
              /\ \A k \in Keys \ {h} : request_list'.list[k] = request_list.list[k]
              /\ request_list'.total_count = request_list.total_count
              /\ request_list'.list_full = request_list.list_full]_vars

\* an earlier caller is still registered under the hash after the timeout of
\* a later caller of the same DID has been processed
C8_Witness ==
    \E u1, u2 \in CallIds :
        /\ u2 < u1
        /\ callDid[u1] = callDid[u2]
        /\ callPc[u1] = "done"
        /\ chan[u1] = << >>
        /\ ~TimeOutPending(u1)
        /\ callPc[u2] = "waiting"
        /\ Registered(u2)
        /\ ~Registered(u1)

---------------------------------------------------------------------------
(* C9 *)

\* a step in which resolve(did) is called
CallStart(did) == calls' = calls + 1 /\ callDid'[calls + 1] = did

\* C9 as stated: once a resolve of d has succeeded, and until d is removed or
\* evicted, every later resolve of d returns cache_hit = true and the
\* document of that first successful call, and sends nothing to the task.
C9_SameAsFirst ==
    [][\A d \in Dids :
          (CallStart(d) /\ firstReturned[d] # NoDoc)
          => /\ callRes'[calls + 1] = Ok(firstReturned[d], TRUE)
             /\ sdk_rx' = sdk_rx]_vars

\* C9: once a resolve of d has succeeded, and until d is removed or
\* evicted, every later resolve of d returns at once with cache_hit = true and
\* the document that the latest successful resolve of d returned (the first
\* call's document when no other resolve of d that missed the cache has
\* completed in between), and sends nothing to the task.
C9_SameAsLatest ==
    [][\A d \in Dids :
          (CallStart(d) /\ lastReturned[d] # NoDoc)
          => /\ callPc'[calls + 1] = "done"
             /\ callRes'[calls + 1] = Ok(lastReturned[d], TRUE)
             /\ sdk_rx' = sdk_rx]_vars

\* a resolve has returned from the cache the document that an earlier
\* resolve of the same DID fetched
C9_Witness ==
    \E u1, u2 \in CallIds :
        /\ u1 < u2
        /\ callDid[u1] = callDid[u2]
        /\ callRes[u1].kind = "Ok"
        /\ ~callRes[u1].cache_hit
        /\ callRes[u2] = Ok(callRes[u1].doc, TRUE)

---------------------------------------------------------------------------
(* C10 *)

\* C10: once a resolve of d has succeeded and remove(d) has been called,
\* the next resolve of d (no other resolve of d being in flight) misses the
\* cache, and the task writes a Request frame for d when it takes that
\* call's submission.
C10_RemoveForcesNewRequest ==
    [][/\ \A d \in Dids :
             (CallStart(d) /\ d \in afterRemove /\ ~InFlight(d))
             => /\ callPc'[calls + 1] = "waiting"
                /\ Len(sdk_rx') = Len(sdk_rx) + 1
                /\ sdk_rx'[Len(sdk_rx')].op = "Send"
                /\ sdk_rx'[Len(sdk_rx')].did = d
       /\ (/\ CommandStep
           /\ Head(sdk_rx).op = "Send"
           /\ Head(sdk_rx).uid \in resendCalls)
          => toServer' = Append(toServer, [did |-> Head(sdk_rx).did,
                                           hash |-> Head(sdk_rx).hash])]_vars

---------------------------------------------------------------------------
(* C11 *)

\* a step in which remove(did) is called for a cached DID
RemoveStep(did) == did \in afterRemove' \ afterRemove

\* C11: remove(d) uses the key of resolve(d): called after a successful
\* resolve(d), with d neither removed nor evicted since, it returns the
\* document that resolve returned and leaves d uncached; called for a DID
\* that is not in the cache it returns None and leaves the cache unchanged.
C11_RemoveReturnsResolved ==
    /\ [](\A d \in Dids :
            cache[DidHash(d)] = NoDoc
            => DIDCacheClient_remove(cache, d) = [cache |-> cache, ret |-> None])
    /\ [](\A d \in Dids :
            lastReturned[d] # NoDoc
            => DIDCacheClient_remove(cache, d).ret = Some(lastReturned[d]))
    /\ [][\A d \in Dids :
            RemoveStep(d)
            => /\ cache' = DIDCacheClient_remove(cache, d).cache
               /\ cache'[DidHash(d)] = NoDoc
               /\ \A h \in Hashes \ {DidHash(d)} : cache'[h] = cache[h]]_vars

\* remove has been called for a DID that a resolve had fetched: the DID is
\* uncached, and a remove called now finds nothing
C11_Witness ==
    \E u \in CallIds :
        /\ callRes[u].kind = "Ok"
        /\ callDid[u] \in afterRemove
        /\ cache[DidHash(callDid[u])] = NoDoc
        /\ DIDCacheClient_remove(cache, callDid[u]).ret = None

---------------------------------------------------------------------------
(* C12 *)

\* C12: remove(d) changes only the document cache: C2, the command
\* channel, the reply channels and the frames on the wire are unchanged, so
\* the callers waiting on d's hash stay registered until the frame for the
\* hash notifies them.
C12_RemoveLeavesC2 ==
    /\ []NoWaiterLost
    /\ [][\A d \in Dids :
            RemoveStep(d)
            => /\ request_list' = request_list
               /\ sdk_rx' = sdk_rx
               /\ chan' = chan
               /\ toServer' = toServer
               /\ toClient' = toClient
               /\ callPc' = callPc]_vars

\* remove(d) has been called while a resolve of d was waiting, and the
\* waiter is still registered under d's hash
C12_Witness ==
    \E u \in CallIds :
        /\ callDid[u] \in afterRemove
        /\ callPc[u] = "waiting"
        /\ chan[u] = << >>
        /\ Registered(u)

---------------------------------------------------------------------------
(* C13 *)

\* a resolve call returns an error in this step
ReturnsError(u) == callRes[u].kind = "none" /\ callRes'[u].kind \notin {"none", "Ok"}

\* C13: every entry of the document cache is the document that a resolve
\* call returned with success for that DID, and a step in which a resolve
\* call returns an error leaves the document cache unchanged.
C13_ErrorsNeverPopulate ==
    /\ [](\A d \in Dids : cache[DidHash(d)] # NoDoc
                            => lastReturned[d] = cache[DidHash(d)])
    /\ [][\A u \in CallIds : ReturnsError(u) => cache' = cache]_vars

---------------------------------------------------------------------------
(* C14 *)

\* the task takes a Send command whose request is new in C2, and the wire
\* write of the Request fails
WriteFails ==
    /\ taskPc = "running"
    /\ CommandStep
    /\ Head(sdk_rx).op = "Send"
    /\ RequestList_insert(request_list, DidHash(Head(sdk_rx).did),
                          Head(sdk_rx).uid, Head(sdk_rx).channel).ret
    /\ ~WsSendOk

\* C14: when the wire write of a Request fails, the task tears down the
\* socket and is in the connect loop before it takes another command or
\* frame.
C14_WriteFailureResets ==
    [][WriteFails => taskPc' = "connecting" /\ conn' = "none"]_vars

---------------------------------------------------------------------------
(* C15 *)

\* the transport to the server is lost while the task is in its select! loop
TransportLost == taskPc = "running" /\ conn \in {"closed", "reset"}

\* the task has a connection again
Reconnected == taskPc = "running" /\ conn = "open"

\* C15: whenever the transport is lost, by a receive error or by the server
\* closing the connection, the task eventually re-enters the connect loop
\* and, the server being reachable again, has a new connection.
C15_ConnectionHeals == TransportLost ~> Reconnected

\* the part of C15 that the receive-error path satisfies
C15_ReceiveErrorHeals == (taskPc = "running" /\ conn = "reset") ~> Reconnected

---------------------------------------------------------------------------
(* C16 *)

\* C16: a reconnect does not reset C2: the step that takes the receive
\* error, every step taken while the task is in the connect loop, and the
\* step that leaves it, keep the keys of C2, the waiter list of every key,
\* total_count and list_full.
C16_ReconnectKeepsC2 ==
    [][(taskPc = "connecting" \/ taskPc' = "connecting")
         => request_list' = request_list]_vars

\* the task has reconnected after a receive error and C2 still holds an
\* entry whose Request was written on the connection that was lost
C16_Witness ==
    /\ taskPc = "running"
    /\ conn = "open"
    /\ outages = 1
    /\ \E h \in Keys :
          /\ entrySends[h] = 1
          /\ Unanswered(h) = 0
          /\ \A i \in 1..Len(toClient) : toClient[i].hash # h

---------------------------------------------------------------------------
(* C17 *)

\* an attempt of the connect loop fails in this step: the task sleeps
\* backoff' and retries
AttemptFails == taskPc = "connecting" /\ taskPc' = "connecting" /\ backoff' # backoff

\* C17: in the connect loop the sleep grows by 5 s per failed attempt and
\* never exceeds the ceiling of 60 s, for any number of consecutive
\* failures.
C17_BackoffWithinCeiling ==
    /\ [](backoff <= BackoffCeiling)
    /\ [][AttemptFails => backoff' = backoff + BackoffStep]_vars

---------------------------------------------------------------------------
(* C18 *)

\* stop() has put Exit in the command channel and the task has not taken it
ExitPending == \E i \in 1..Len(sdk_rx) : sdk_rx[i].op = "Exit"

\* C18: after shutdown is issued to a running task, the task eventually
\* exits, whether C2 is full or not and whether the task is connected or in
\* the connect loop.
C18_ShutdownEventuallyExits == ExitPending ~> (taskPc = "exited")

\* the part of C18 for a task whose C2 is not full when it next polls
C18_ExitsWhenNotFull ==
    (ExitPending /\ ~RequestList_is_full(request_list)) ~>
        (taskPc = "exited" \/ RequestList_is_full(request_list))

---------------------------------------------------------------------------
(* C19 *)

\* the server takes the next text frame from the socket
ServerStep ==
    /\ conn = "open"
    /\ toServer # << >>
    /\ Len(toServer') < Len(toServer)

\* C19: on the SDK side and on the server side, a text frame that cannot be
\* decoded is dropped and the connection is kept, so that the frames behind
\* it are still received and processed.
C19_BadFrameKeepsConnection ==
    /\ [][(FrameStep /\ ~WSResponseType_decodes(Head(toClient)))
            => /\ taskPc' = "running"
               /\ toClient' = Tail(toClient)
               /\ toServer' = toServer]_vars
    /\ [][(ServerStep /\ ~WSRequest_decodes(Head(toServer)))
            => /\ conn' = "open"
               /\ toServer' = Tail(toServer)]_vars

\* the part of C19 that the SDK side satisfies
C19_SdkDropsBadFrame ==
    [][(taskPc = "running" /\ toClient # << >>
          /\ ~WSResponseType_decodes(Head(toClient)) /\ toClient' # toClient
          /\ Len(toClient') < Len(toClient))
         => /\ taskPc' = "running"
            /\ conn' = conn
            /\ toClient' = Tail(toClient)
            /\ request_list' = request_list]_vars

---------------------------------------------------------------------------
(* C20 *)

\* the server writes a frame in answer to the Request it has taken
ServerAnswers ==
    /\ ServerStep
    /\ WSRequest_decodes(Head(toServer))
    /\ Len(toClient') = Len(toClient) + 1

\* C20: every frame the server writes in answer to a Request, Response or
\* Error, carries the hash field of that Request, also when that hash field
\* is not the digest of the did field.
C20_AnswerEchoesHash ==
    [][ServerAnswers => toClient'[Len(toClient')].hash = Head(toServer).hash]_vars

\* the part of C20 that the Error frames satisfy
C20_ErrorEchoesHash ==
    [][(ServerAnswers /\ toClient'[Len(toClient')].type = "Error")
         => toClient'[Len(toClient')].hash = Head(toServer).hash]_vars

---------------------------------------------------------------------------
(* C21 *)

\* C21: for every decodable Request the server takes, it writes exactly one
\* frame for it, a Response or an Error for the Request's did, in the step
\* that takes the Request and so before it reads the next one; the
\* connection stays open, after an Error frame too, and the Requests behind
\* it stay to be served.
C21_OneFramePerRequest ==
    [][(ServerStep /\ WSRequest_decodes(Head(toServer)))
         => /\ Len(toClient') = Len(toClient) + 1
            /\ SubSeq(toClient', 1, Len(toClient)) = toClient
            /\ toClient'[Len(toClient')].type \in {"Response", "Error"}
            /\ toClient'[Len(toClient')].did = Head(toServer).did
            /\ toServer' = Tail(toServer)
            /\ conn' = "open"]_vars

\* the server has written an Error frame and, on the same connection, the
\* answer to a later Request
C21_Witness ==
    /\ conn = "open"
    /\ \E i, j \in 1..Len(toClient) :
          /\ i < j
          /\ toClient[i].type = "Error"
          /\ toClient[j].type \in {"Response", "Error"}

---------------------------------------------------------------------------
(* C22 *)

\* the DID passes the three guards of resolve
GuardsPass(cfg, did) ==
    /\ ~SizeGuardRejects(cfg, did)
    /\ ~ShapeGuardRejects(Split(did, Colon))
    /\ ~PartsGuardRejects(cfg, Split(Split(did, Colon)[Len(Split(did, Colon))], Dot))

\* the method token of a DID that passes the shape guard
MethodOf(did) == PieceText(Split(did, Colon)[2])

\* the DIDs that pass the guards and whose method token is not a supported
\* method
UnsupportedDids(cfg) ==
    {did \in GuardDids : GuardsPass(cfg, did) /\ ~DIDMethod_try_from(MethodOf(did)).ok}

\* C22: resolve of a DID whose method token is not a supported method fails
\* with UnsupportedMethod carrying that token, in local mode as well as on a
\* cache hit.
C22_UnsupportedMethodError ==
    /\ \A u \in 1..calls :
          (config.service_address = None /\ callDid[u] \in UnsupportedDids(config))
          => callRes[u] = ResolveErr("UnsupportedMethod", MethodOf(callDid[u]))
    /\ \A did \in UnsupportedDids(config) : \A outcome \in Outcomes(config) :
          cache[Blake2sHex(did)] # NoDoc
          => DIDCacheClient_resolve(config, cache, did, outcome).res
               = ResolveErr("UnsupportedMethod", MethodOf(did))

\* the part of C22 that the cache hit satisfies
C22_HitUnsupportedMethod ==
    \A did \in UnsupportedDids(config) : \A outcome \in Outcomes(config) :
        cache[Blake2sHex(did)] # NoDoc
        => DIDCacheClient_resolve(config, cache, did, outcome).res
             = ResolveErr("UnsupportedMethod", MethodOf(did))

---------------------------------------------------------------------------
(* C23 *)

\* max_did_size_in_kb * 1000 bytes
SizeLimitBytes(cfg) == cfg.max_did_size_in_kb * 1000

SizeError == ResolveErr("DIDError", "size")

\* C23: resolve does not reject for size a DID of at most
\* max_did_size_in_kb * 1000 bytes, exactly that many included, and rejects
\* with DIDError a longer one, one byte longer included, before it hashes,
\* looks the cache up or dispatches, and with the cache unchanged.
C23_SizeBoundary ==
    /\ \A did \in GuardDids : \A outcome \in Outcomes(config) :
          LET r == DIDCacheClient_resolve(config, cache, did, outcome)
          IN  /\ DidLen(did) <= SizeLimitBytes(config)
                   => r.res # SizeError /\ Len(r.trace) > 1
              /\ DidLen(did) > SizeLimitBytes(config)
                   => r.res = SizeError /\ r.trace = <<"size guard">> /\ r.cache = cache
    /\ \A u \in 1..calls :
          callRes[u] = SizeError <=> DidLen(callDid[u]) > SizeLimitBytes(config)

\* resolve has been called with a DID of exactly the limit, which it
\* resolved, and with a DID one byte longer, which it rejected for size
C23_Witness ==
    \E u, v \in 1..calls :
        /\ DidLen(callDid[u]) = SizeLimitBytes(config)
        /\ callRes[u].kind = "Ok"
        /\ DidLen(callDid[v]) = SizeLimitBytes(config) + 1
        /\ callRes[v] = SizeError

---------------------------------------------------------------------------
(* C24 *)

\* the number of ':' in the text
Colons(did) == Cardinality({i \in 1..Len(did) : did[i] = Colon})

ShapeError == ResolveErr("DIDError", "shape")

\* C24: resolve rejects with DIDError every DID of fewer than three
\* colon-separated segments (that the size guard lets through), and does not
\* reject for shape a DID of three segments or more.
C24_ShapeBoundary ==
    /\ \A did \in GuardDids : \A outcome \in Outcomes(config) :
          LET r == DIDCacheClient_resolve(config, cache, did, outcome)
          IN  /\ (Colons(did) + 1 < 3 /\ DidLen(did) <= SizeLimitBytes(config))
                   => r.res = ShapeError /\ r.cache = cache
              /\ Colons(did) + 1 >= 3 => r.res # ShapeError
    /\ \A u \in 1..calls :
          callRes[u] = ShapeError <=>
             (Colons(callDid[u]) + 1 < 3 /\ DidLen(callDid[u]) <= SizeLimitBytes(config))

\* resolve has been called with a DID of two segments, which it rejected
\* for shape, and with a DID of three segments, which it resolved
C24_Witness ==
    \E u, v \in 1..calls :
        /\ Colons(callDid[u]) + 1 = 2
        /\ callRes[u] = ShapeError
        /\ Colons(callDid[v]) + 1 = 3
        /\ callRes[v].kind = "Ok"

---------------------------------------------------------------------------
(* C25 *)

\* the number of '.' after the last ':' of the text
RECURSIVE DotsOfLastSegment(_)
DotsOfLastSegment(did) ==
    IF did = << >> \/ did[Len(did)] = Colon THEN 0
    ELSE (IF did[Len(did)] = Dot THEN 1 ELSE 0)
         + DotsOfLastSegment(SubSeq(did, 1, Len(did) - 1))

PartsError == ResolveErr("DIDError", "parts")

\* the DID passes the size guard and the shape guard
ReachesPartsGuard(cfg, did) ==
    DidLen(did) <= SizeLimitBytes(cfg) /\ Colons(did) + 1 >= 3

\* C25: of the DIDs that reach the parts guard, resolve does not reject one
\* whose last segment splits on '.' into at most max_did_parts pieces,
\* exactly max_did_parts included, and rejects with DIDError one that splits
\* into more, max_did_parts + 1 included.
C25_PartsBoundary ==
    /\ \A did \in GuardDids : \A outcome \in Outcomes(config) :
          LET r == DIDCacheClient_resolve(config, cache, did, outcome)
          IN  ReachesPartsGuard(config, did)
              => /\ DotsOfLastSegment(did) + 1 <= config.max_did_parts
                      => r.res # PartsError
                 /\ DotsOfLastSegment(did) + 1 > config.max_did_parts
                      => r.res = PartsError /\ r.cache = cache
    /\ \A u \in 1..calls :
          callRes[u] = PartsError <=>
             /\ ReachesPartsGuard(config, callDid[u])
             /\ DotsOfLastSegment(callDid[u]) + 1 > config.max_did_parts

\* resolve has been called with a DID of exactly max_did_parts pieces,
\* which it resolved, and with one of max_did_parts + 1 pieces, which it
\* rejected
C25_Witness ==
    \E u, v \in 1..calls :
        /\ DotsOfLastSegment(callDid[u]) + 1 = config.max_did_parts
        /\ callRes[u].kind = "Ok"
        /\ DotsOfLastSegment(callDid[v]) + 1 = config.max_did_parts + 1
        /\ callRes[v] = PartsError

---------------------------------------------------------------------------
(* C26 *)

\* the steps of resolve in the order the claim gives them
StepOrder(cfg) ==
    <<"size guard", "hash", "shape guard", "parts guard", "cache.get",
      IF cfg.service_address # None THEN "network_resolve" ELSE "local_resolve",
      "cache.insert">>

\* the error of the first guard that the DID fails, or None
FirstGuardError(cfg, did) ==
    IF DidLen(did) > SizeLimitBytes(cfg) THEN Some(SizeError)
    ELSE IF Colons(did) + 1 < 3 THEN Some(ShapeError)
    ELSE IF DotsOfLastSegment(did) + 1 > cfg.max_did_parts THEN Some(PartsError)
    ELSE None

\* C26: every resolve call, one for a cached DID included, applies the size
\* guard, then the shape guard, then the parts guard, before the cache
\* lookup; the first guard that fails determines the error; and for a
\* rejected DID there is no cache lookup, no network submission and no
\* method dispatch, and the cache is unchanged.
C26_GuardsBeforeLookup ==
    /\ \A did \in GuardDids : \A outcome \in Outcomes(config) :
          LET r == DIDCacheClient_resolve(config, cache, did, outcome)
          IN  /\ r.trace = SubSeq(StepOrder(config), 1, Len(r.trace))
              /\ FirstGuardError(config, did) # None
                   => /\ r.res = FirstGuardError(config, did)[1]
                      /\ \A i \in 1..Len(r.trace) :
                            r.trace[i] \in {"size guard", "hash", "shape guard", "parts guard"}
                      /\ r.cache = cache
              /\ FirstGuardError(config, did) = None
                   => /\ Len(r.trace) >= 5
                      /\ r.res \notin {SizeError, ShapeError, PartsError}
    /\ \A u \in 1..calls :
          FirstGuardError(config, callDid[u]) # None
          => callRes[u] = FirstGuardError(config, callDid[u])[1]

\* resolve has been called with a DID that is in the cache and that fails
\* the size guard and the parts guard, and has rejected it for size
C26_Witness ==
    \E u \in 1..calls :
        /\ cache[Blake2sHex(callDid[u])] # NoDoc
        /\ DidLen(callDid[u]) > SizeLimitBytes(config)
        /\ DotsOfLastSegment(callDid[u]) + 1 > config.max_did_parts
        /\ callRes[u] = SizeError

---------------------------------------------------------------------------
(* C27 *)

\* C27: after any sequence of insert and remove calls, with or without uid,
\* on present or absent keys, total_count is the number of distinct keys in
\* the list, however many waiters each key has.
C27_TotalCountIsKeyCount == request_list.total_count = Cardinality(Keys)

\* two keys are in the list, one of them with two waiters
C27_Witness ==
    /\ request_list.total_count = 2
    /\ \E h, k \in Keys : h # k /\ Len(request_list.list[h]) = 2

---------------------------------------------------------------------------
(* C28 *)

\* C28: after any sequence of insert and remove calls on a new list,
\* is_full() is true if and only if total_count > network_cache_limit_count.
C28_FullIffOverLimit ==
    RequestList_is_full(request_list)
        <=> request_list.total_count > request_list.limit_count

\* what does hold: a list that reports full is over its limit, and an insert
\* that creates a key makes the list full exactly when it takes total_count
\* over the limit
C28_FullImpliesOverLimit ==
    /\ RequestList_is_full(request_list)
           => request_list.total_count > request_list.limit_count
    /\ \A key \in ListKeys \ Keys :
          LET r == RequestList_insert(request_list, key, 1, 1)
          IN  /\ r.rl.total_count > r.rl.limit_count => RequestList_is_full(r.rl)
              /\ r.rl.total_count <= r.rl.limit_count
                     => RequestList_is_full(r.rl) = RequestList_is_full(request_list)

---------------------------------------------------------------------------
(* C29 *)

\* remove(h, Some(uid)) where (uid, _) is the only waiter of h
RemoveLastWaiter(h) ==
    RequestList_remove(request_list, h, Some(request_list.list[h][1][1]))

\* C29: every key of the list maps to a non-empty list of waiters: removing
\* the last waiter of a key by uid removes the key and takes one off
\* total_count.
C29_NoEmptyWaiterList ==
    /\ \A h \in Keys : request_list.list[h] # << >>
    /\ \A h \in Keys :
          Len(request_list.list[h]) = 1
              => /\ h \notin DOMAIN RemoveLastWaiter(h).rl.list
                 /\ RemoveLastWaiter(h).rl.total_count = request_list.total_count - 1

\* two keys, one with a single waiter whose removal by uid leaves one key
C29_Witness ==
    /\ request_list.total_count = 2
    /\ \E h \in Keys :
          /\ Len(request_list.list[h]) = 1
          /\ DOMAIN RemoveLastWaiter(h).rl.list = Keys \ {h}
          /\ RemoveLastWaiter(h).rl.total_count = 1

---------------------------------------------------------------------------
(* C30 *)

\* C30: insert(h, uid, ch) returns true exactly when h was not a key (it then
\* creates the entry and adds one to total_count) and false exactly when h
\* was a key (it then appends (uid, ch) at the end of h's list and leaves
\* total_count and list_full unchanged), even when the uid is already
\* registered under h.
C30_InsertReturnsNewKey ==
    \A h \in ListKeys : \A uid \in ListUids : \A ch \in ListChannels :
        LET r == RequestList_insert(request_list, h, uid, ch)
        IN  /\ r.ret = (h \notin Keys)
            /\ h \notin Keys
                  => /\ r.rl.list = MapPut(request_list.list, h, << <<uid, ch>> >>)
                     /\ r.rl.total_count = request_list.total_count + 1
            /\ h \in Keys
                  => /\ r.rl.list[h] = Append(request_list.list[h], <<uid, ch>>)
                     /\ \A k \in Keys \ {h} : r.rl.list[k] = request_list.list[k]
                     /\ DOMAIN r.rl.list = Keys
                     /\ r.rl.total_count = request_list.total_count
                     /\ r.rl.list_full = request_list.list_full

\* a key holds the same uid twice, on two channels, the later one last
C30_Witness ==
    \E h \in Keys :
        /\ Len(request_list.list[h]) = 2
        /\ request_list.list[h][1][1] = request_list.list[h][2][1]
        /\ request_list.list[h][1][2] = 1
        /\ request_list.list[h][2][2] = 2
        /\ request_list.total_count = 1

---------------------------------------------------------------------------
(* C31 *)

\* remove(h, uid) finds nothing: h is no key, or no waiter of h has the uid
FindsNothing(h, uid) ==
    \/ h \notin Keys
    \/ /\ uid # None
       /\ \A i \in 1..Len(request_list.list[h]) : request_list.list[h][i][1] # uid[1]

\* the task reads a Response or Error frame whose hash is not in C2
ReadsUnknownHash == TaskRecvFrame /\ Head(toClient).hash \notin Keys

\* C31: remove returns None and leaves the list, total_count and list_full
\* as they were when the key is absent (with or without uid) or no waiter of
\* the key has the uid; a frame whose hash is not in C2 notifies no channel
\* and changes nothing.
C31_UnknownHashDropped ==
    /\ [](\A h \in Hashes : \A uid \in {None} \cup {Some(u) : u \in CallIds} :
             FindsNothing(h, uid)
                 => /\ RequestList_remove(request_list, h, uid).ret = None
                    /\ RequestList_remove(request_list, h, uid).rl = request_list)
    /\ [][ReadsUnknownHash
             => /\ request_list' = request_list
                /\ chan' = chan
                /\ UNCHANGED <<callVars, cache, sdk_rx, toServer, conn, taskPc>>]_vars

\* a frame whose hash is not in C2 is next to be read while another hash
\* has a waiter
C31_Witness ==
    /\ taskPc = "running"
    /\ conn \in {"open", "closed"}
    /\ toClient # << >>
    /\ Head(toClient).type \in {"Response", "Error"}
    /\ Head(toClient).hash \notin Keys
    /\ Keys # {}
    /\ RequestList_remove(request_list, Head(toClient).hash, None).ret = None

---------------------------------------------------------------------------
(* C32 *)

\* the Connected events the task has sent so far: those still queued for the
\* SDK and the one that new has read
ConnectedSent == task_tx + (IF clientPc = "new" THEN 0 ELSE 1)

\* C32: during the lifetime of a NetworkTask Connected is sent to the SDK
\* exactly once, on the first successful connect, however many reconnects
\* follow.
C32_ConnectedOnce ==
    /\ ConnectedSent <= 1
    /\ taskPc = "running" => ConnectedSent = 1

---------------------------------------------------------------------------
(* C33 *)

\* the task has not yet established a connection: no Connected has been
\* sent, none is queued and new has read none
NeverConnected == clientPc = "new" /\ task_tx = 0

\* new returns
NewReturns == clientPc = "new" /\ clientPc' # "new"

\* C33: in network mode new returns only after the task has established its
\* first connection and sent Connected; no resolve is submitted to the task
\* before that, and while the server is unreachable new does not return.
C33_NewWaitsForConnected ==
    /\ [][NewReturns => task_tx > 0 /\ task_tx' = task_tx - 1]_vars
    /\ [][task_tx' > task_tx
             => taskPc = "connecting" /\ taskPc' = "running" /\ conn' = "open"]_vars
    /\ [](clientPc = "new" => calls = 0 /\ sdk_rx = << >> /\ Keys = {})
    /\ [](NeverConnected => ~ENABLED ClientNew)
    /\ [][NeverConnected /\ taskPc' = "connecting" => clientPc' = "new"]_vars

\* the first connect attempt failed, a later one succeeded, new returned and
\* a resolve has been submitted
C33_Witness ==
    /\ clientPc = "ready"
    /\ backoff > BackoffStart
    /\ taskPc = "running"
    /\ calls > 0
    /\ sdk_rx # << >>

---------------------------------------------------------------------------
(* C34 *)

\* every caller waiting in C2 has reached its deadline: it has sent TimeOut
\* to the task and returned Timeout
AllWaitersTimedOut ==
    \A h \in Keys : \A i \in 1..Len(request_list.list[h]) :
        callRes[request_list.list[h][i][1]] = Err("Timeout")

\* C34: a full C2 is never permanent: from any state where C2 is full and
\* every waiting caller has timed out, the task eventually reaches a state
\* where C2 is not full and it reads commands again.
C34_FullIsNotPermanent ==
    (RequestList_is_full(request_list) /\ AllWaitersTimedOut)
        ~> ~RequestList_is_full(request_list)

---------------------------------------------------------------------------
(* C35 *)

\* C35: the task never blocks for ever while sending Connected: after any
\* number of disconnect/reconnect cycles, the SDK reading the task-to-SDK
\* channel only once and the channel being bounded, the task is back in the
\* select! loop.
C35_ConnectedNeverBlocks == (taskPc = "connecting") ~> (taskPc = "running")

\* what does hold: the task is back in the select! loop while the channel
\* has room for another Connected
C35_ReconnectsWhileRoom ==
    (taskPc = "connecting" /\ task_tx < ChannelCap) ~> (taskPc = "running")

---------------------------------------------------------------------------
(* C36 *)

\* C36: for every hash that is a key of C2, a Request frame for that hash
\* has been written to the wire since the entry was created: no entry stays
\* in C2 with its Request unsent.
C36_EntryHasRequest == \A h \in Keys : entrySends[h] >= 1

\* what does hold: an entry created while the socket is open has its Request
C36_OpenSocketWrites ==
    [][\A h \in Hashes :
          (h \notin Keys /\ h \in DOMAIN request_list'.list /\ conn = "open")
              => entrySends'[h] = 1]_vars

---------------------------------------------------------------------------
(* C37 *)

\* call u reached its deadline unnotified and the task has read both its
\* Send and its TimeOut
TimeOutTaken(u) ==
    /\ callRes[u] = Err("Timeout")
    /\ ~SendPending(u)
    /\ ~TimeOutPending(u)
    /\ chan[u] = << >>

\* C37: each reply channel registered in C2 is used at most once: a waiter
\* is notified by at most one Response or Error, in the step that takes its
\* pair out of C2, and a waiter whose pair was removed by its own timeout is
\* never notified afterwards, whatever frame arrives later and whoever
\* submits the same DID again.
C37_ChannelUsedAtMostOnce ==
    /\ [](\A u \in CallIds : Len(chan[u]) <= 1)
    /\ [][\A u \in CallIds :
             chan'[u] # chan[u]
                 => /\ Registered(u)
                    /\ ~Registered(u)'
                    /\ Len(chan'[u]) = Len(chan[u]) + 1]_vars
    /\ [](\A u \in CallIds : TimeOutTaken(u) => ~Registered(u))
    /\ [][\A u \in CallIds :
             TimeOutTaken(u) => chan'[u] = << >> /\ TimeOutTaken(u)']_vars

\* call u was removed by its own timeout; a later call for the same DID has
\* been notified and u has not
C37_Witness ==
    \E u, v \in CallIds :
        /\ u < v
        /\ callDid[u] = callDid[v]
        /\ TimeOutTaken(u)
        /\ timeoutDrops[DidHash(callDid[u])] >= 1
        /\ chan[v] # << >>

---------------------------------------------------------------------------
(* C38 *)

\* the task is inside ws_connect, at the first connect or at a reconnect
InConnectLoop == taskPc = "connecting"

\* the command channel after the step holds what it held, and possibly one
\* command more at its end
NothingConsumed ==
    /\ Len(sdk_rx') >= Len(sdk_rx)
    /\ SubSeq(sdk_rx', 1, Len(sdk_rx)) = sdk_rx

\* C38: while the task is inside the connect loop it consumes no caller
\* command: submissions, timeouts and shutdown issued meanwhile stay in the
\* channel until a connection is established, and C2 is not modified.
C38_ConnectLoopReadsNothing ==
    [][InConnectLoop
          => /\ NothingConsumed
             /\ request_list' = request_list
             /\ chan' = chan
             /\ toServer' = << >> \/ toServer' = toServer
             /\ taskPc' \in {"connecting", "running"}
             /\ taskPc' = "running" => conn' = "open"]_vars

\* during a reconnect C2 holds an entry and a submission, a timeout and the
\* shutdown are waiting in the channel
C38_Witness ==
    /\ InConnectLoop
    /\ Keys # {}
    /\ \E i, j, k \in 1..Len(sdk_rx) :
          /\ sdk_rx[i].op = "TimeOut"
          /\ sdk_rx[j].op = "Send"
          /\ sdk_rx[k].op = "Exit"

====
